---- MODULE Spec2Model ----
(***************************************************************************)
(* Verification model of the gyd-chain node core.                          *)
(*                                                                         *)
(*   SpecChain  : the chain head (internal/chain/chain.go) applying blocks *)
(*                to the state store.                                      *)
(*   SpecEngine : the PoS consensus engine (package pos, Engine) with its  *)
(*                validator set and proposer selection.                    *)
(*   SpecValidator : one validator (pos/validator.go) under delegation and *)
(*                slashing.                                                *)
(*   SpecKeeper : the slashing keeper (pos/slashing.go) over an engine.    *)
(*   SpecMempool : the transaction pool with its priority queue.           *)
(*   SpecStore  : a state store (StateDB) with commits, snapshots and      *)
(*                reverts.                                                 *)
(*   SpecAsset  : one asset under minting, burning and pausing.            *)
(*   SpecUnconfirmed : the transaction pool when nothing is ever confirmed *)
(*                or removed by hand: admissions, expiry, time.            *)
(*   SpecLocks, SpecLocksFair : goroutines calling into the keeper, the    *)
(*                engine and the chain head, as sequences of operations on *)
(*                the components' reader-writer locks.                     *)
(*   SpecReward : the proof-of-work reward distributor (pow/reward.go).    *)
(*   SpecLoop   : the transaction pool with its cleanup goroutine, Stop    *)
(*                and callers of AddTx.                                    *)
(*                                                                         *)
(* uint64 arithmetic is modelled modulo UintMod (a scaled-down 2^64), so   *)
(* that wrap-around is reachable.  Hashes are modelled as injective        *)
(* encodings of what is hashed (collision-free SHA-256).                   *)
(***************************************************************************)
EXTENDS Integers, Sequences, FiniteSets, TLC

VARIABLES
    \* ---- chain head + state store ----
    accounts,       \* StateDB.accounts : address -> account
    blocks,         \* Chain.blocks     : block hash -> block
    heights,        \* Chain.heights    : height -> block hash
    latestHash,     \* Chain.latestHash
    latestHeight,   \* Chain.latestHeight
    chainRet,       \* error returned by the last AddBlock call ("nil" = success)
    \* ---- PoS engine ----
    validators,     \* Engine.validators    : address -> validator
    validatorList,  \* Engine.validatorList : sequence of validator addresses
    totalStake,     \* Engine.totalStake
    currentRound,   \* Engine.currentRound
    currentLeader,  \* Engine.currentLeader
    engineRet,      \* result of the last engine call
    \* ---- a validator object on its own ----
    theValidator,   \* a Validator object
    \* ---- slashing keeper ----
    signingInfo,    \* SlashingKeeper.signingInfo    : address -> signing info
    slashingEvents, \* SlashingKeeper.slashingEvents : sequence of events
    now,            \* time.Now().Unix()
    pending,        \* HandleDowntime goroutines started by SignBlock, not yet run
    reported,       \* per validator, the next block height to report to SignBlock
    keeperRet,      \* result of the last keeper call
    \* ---- mempool ----
    poolTxs,        \* Mempool.txs    : hash -> MempoolTx
    queue,          \* Mempool.queue  : the heap's slice
    nonces,         \* Mempool.nonces : address -> next nonce
    clock,          \* time.Now() as the mempool reads it
    reaped,         \* what the last ReapMaxTxs returned
    poolRet,        \* result of the last mempool call
    \* ---- a state store with a snapshot of it ----
    stateDB,        \* a StateDB: accounts, assets, dirty, root
    snapshot,       \* the StateDB the last Snapshot call returned, if any
    aliased,        \* stateDB.accounts and .assets are the snapshot's maps
    taken,          \* accounts, assets, root and stateOps when Snapshot ran
    stateOps,       \* calls that wrote to the store's maps so far
    stateRet,       \* result of the last store call
    \* ---- an asset object on its own ----
    theAsset,       \* an Asset object
    assetRet,       \* result of the last asset call
    \* ---- goroutines calling into keeper, engine and chain head ----
    running,        \* per goroutine, the call it is in and its position
    mutexes,        \* per sync.RWMutex: writer, readers, announced writers
    \* ---- the mempool's cleanup goroutine ----
    stopChan,       \* Mempool.stopChan: "open" or "closed"
    tickReady,      \* a tick waits in ticker.C
    loopPc,         \* where cleanupLoop is: "select" or "returned"
    inflight,       \* AddTx calls that wait for the mempool's lock
    \* ---- PoW reward helper ----
    distributor     \* a RewardDistributor with its lock and one caller

chainVars  == <<accounts, blocks, heights, latestHash, latestHeight, chainRet>>
engineVars == <<validators, validatorList, totalStake, currentRound, currentLeader, engineRet>>
keeperVars == <<signingInfo, slashingEvents, now, pending, reported, keeperRet>>
poolVars   == <<poolTxs, queue, nonces, clock, reaped, poolRet>>
storeVars  == <<stateDB, snapshot, aliased, taken, stateOps, stateRet>>
assetVars  == <<theAsset, assetRet>>
lockVars   == <<running, mutexes>>
loopVars   == <<stopChan, tickReady, loopPc, inflight>>
vars       == <<accounts, blocks, heights, latestHash, latestHeight, chainRet,
                validators, validatorList, totalStake, currentRound, currentLeader, engineRet,
                theValidator, signingInfo, slashingEvents, now, pending, reported, keeperRet,
                poolTxs, queue, nonces, clock, reaped, poolRet,
                stateDB, snapshot, aliased, taken, stateOps, stateRet,
                theAsset, assetRet, running, mutexes,
                stopChan, tickReady, loopPc, inflight, distributor>>

----------------------------------------------------------------------------
(* Bounds of the model                                                     *)

MaxUint   == 7      \* largest value of the scaled-down uint64
MaxTxs    == 2      \* transactions per candidate block
MaxHeight == 2      \* heights offered in candidate headers
MaxBlocks == 2      \* blocks held by the chain (genesis included)
MaxNonce  == 2      \* no fresh block is offered once an account nonce reaches this

UintMod == MaxUint + 1

Min(a, b) == IF a < b THEN a ELSE b

----------------------------------------------------------------------------
(* Transactions                                                            *)

Assets == {"GYDS", "GYD"}

\* A transaction; sig is the signature field: "none" (empty), "bad" (non-empty,
\* not a signature of the hash) or "good".
Tx(type, from, to, amount, asset, fee, nonce, sig) ==
    [type |-> type, from |-> from, to |-> to, amount |-> amount,
     asset |-> asset, fee |-> fee, nonce |-> nonce, sig |-> sig]

\* The transactions offered to the chain.  Genesis gives A 3 GYDS and 2 GYD,
\* B 1 GYDS; C and D have no account.
TxPool == <<
    Tx("transfer", "A", "B", 1, "GYDS", 1, 0, "good"),        \* plain transfer with a fee
    Tx("transfer", "A", "A", 1, "GYDS", 1, 0, "good"),        \* sender = receiver
    Tx("transfer", "A", "B", MaxUint, "GYDS", 0, 0, "good"),  \* more than A can own
    Tx("transfer", "A", "C", 2, "GYD", 0, 0, "good"),         \* receiver without account
    Tx("transfer", "A", "B", MaxUint, "GYDS", 2, 0, "good"),  \* amount + fee wraps
    Tx("transfer", "D", "A", 1, "GYDS", 0, 0, "good"),        \* sender without account
    Tx("burn", "A", "", 1, "GYDS", 0, 0, "good"),             \* burn, no receiver
    Tx("transfer", "B", "A", 1, "GYDS", 0, 0, "none")         \* unsigned
>>

\* The pool entries that blocks of several transactions are built from.
Combined == {1, 2, 3}

Unsigned(t) == [t EXCEPT !.sig = "none"]

\* Transaction.Hash: SHA-256 of the transaction with the signature cleared.
TxHash(t) ==
    CHOOSE i \in 1..Len(TxPool) :
        /\ Unsigned(TxPool[i]) = Unsigned(t)
        /\ \A j \in 1..(i - 1) : Unsigned(TxPool[j]) # Unsigned(t)

\* Transaction.Verify: the error, or "nil".
TxVerify(t) ==
    IF t.from = "" THEN "ErrMissingFrom"
    ELSE IF t.type # "burn" /\ t.to = "" THEN "ErrMissingTo"
    ELSE IF t.amount = 0 /\ t.type = "transfer" THEN "ErrZeroAmount"
    ELSE IF t.asset = "" THEN "ErrMissingAsset"
    ELSE IF t.asset # "GYDS" /\ t.asset # "GYD" THEN "ErrInvalidAsset"
    ELSE IF t.sig = "none" THEN "ErrMissingSignature"
    ELSE "nil"

----------------------------------------------------------------------------
(* Blocks                                                                  *)

ZeroRoot  == 0       \* the "0x00..00" string CalculateTxRoot gives an empty block
ZeroBytes == -1      \* 32 zero bytes, hex-encoded without the 0x prefix

\* SHA-256 of the concatenation of two hashes: injective, and never a
\* transaction hash nor one of the zero roots.
HashPair(l, r) == Len(TxPool) + 1 + ((l + r) * (l + r + 1)) \div 2 + r

RECURSIVE PairLevel(_)
PairLevel(hashes) ==
    IF hashes = <<>> THEN <<>>
    ELSE <<HashPair(hashes[1], hashes[2])>> \o PairLevel(SubSeq(hashes, 3, Len(hashes)))

RECURSIVE merkleRoot(_)
merkleRoot(hashes) ==
    IF Len(hashes) = 0 THEN ZeroBytes
    ELSE IF Len(hashes) = 1 THEN hashes[1]
    ELSE LET even == IF Len(hashes) % 2 # 0
                     THEN Append(hashes, hashes[Len(hashes)])
                     ELSE hashes
         IN  merkleRoot(PairLevel(even))

CalculateTxRoot(txs) ==
    IF Len(txs) = 0 THEN ZeroRoot
    ELSE merkleRoot([i \in 1..Len(txs) |-> TxHash(txs[i])])

NoHash      == <<>>      \* the empty string
UnknownHash == <<0>>     \* a hash no block has

ClockLimit == 1          \* time.Now() + 15 s, in the units of header timestamps

Header(height, timestamp, parentHash, txRoot) ==
    [height |-> height, timestamp |-> timestamp,
     parentHash |-> parentHash, txRoot |-> txRoot]

Block(header, txs) == [header |-> header, txs |-> txs]

\* Block.Hash: SHA-256 of the serialized header (the transactions enter only
\* through txRoot).
BlockHash(b) ==
    <<b.header.height, b.header.timestamp, b.header.txRoot>> \o b.header.parentHash

HeaderValidate(h) ==
    IF h.timestamp > ClockLimit THEN "ErrInvalidTimestamp"
    ELSE IF h.height > 0 /\ h.parentHash = NoHash THEN "ErrInvalidHeight"
    ELSE "nil"

RECURSIVE VerifyAll(_)
VerifyAll(txs) ==
    IF txs = <<>> THEN "nil"
    ELSE IF TxVerify(Head(txs)) # "nil" THEN TxVerify(Head(txs))
    ELSE VerifyAll(Tail(txs))

BlockVerify(b) ==
    IF HeaderValidate(b.header) # "nil" THEN HeaderValidate(b.header)
    ELSE IF VerifyAll(b.txs) # "nil" THEN VerifyAll(b.txs)
    ELSE IF CalculateTxRoot(b.txs) # b.header.txRoot THEN "ErrInvalidTxRoot"
    ELSE "nil"

----------------------------------------------------------------------------
(* State store                                                             *)

NewAccount ==
    [nonce |-> 0, balances |-> [a \in Assets |-> 0], staked |-> 0, delegated |-> 0]

\* StateDB.SetAccount
SetAccount(accts, addr, acct) ==
    [a \in DOMAIN accts \cup {addr} |-> IF a = addr THEN acct ELSE accts[a]]

RECURSIVE SumOver(_, _)
SumOver(f, S) ==
    IF S = {} THEN 0
    ELSE LET x == CHOOSE y \in S : TRUE IN f[x] + SumOver(f, S \ {x})

\* StateDB.TotalSupply, as an unbounded integer (delegated is the sum of the
\* account's delegations).
TotalSupply(accts, asset) ==
    SumOver([a \in DOMAIN accts |->
                accts[a].balances[asset]
                + (IF asset = "GYDS" THEN accts[a].staked + accts[a].delegated ELSE 0)],
            DOMAIN accts)

----------------------------------------------------------------------------
(* Chain head                                                              *)

\* Chain.processTransaction on the account map accts: the error and the
\* account map it leaves.  Sender and receiver are copies taken from the
\* store; both are written back, the receiver last.
processTransaction(accts, t) ==
    IF t.from \notin DOMAIN accts
    THEN [err |-> "sender account not found", accounts |-> accts]
    ELSE
    LET sender   == accts[t.from]
        balance  == sender.balances[t.asset]
    IN
    IF balance < (t.amount + t.fee) % UintMod
    THEN [err |-> "insufficient balance", accounts |-> accts]
    ELSE
    LET receiver  == IF t.to \in DOMAIN accts THEN accts[t.to] ELSE NewAccount
        sender2   == [sender EXCEPT
                        !.balances[t.asset] = (balance - t.amount - t.fee) % UintMod,
                        !.nonce = (sender.nonce + 1) % UintMod]
        receiver2 == [receiver EXCEPT
                        !.balances[t.asset] = (receiver.balances[t.asset] + t.amount) % UintMod]
    IN  [err |-> "nil",
         accounts |-> SetAccount(SetAccount(accts, t.from, sender2), t.to, receiver2)]

\* The transaction loop of AddBlock: stops at the first error.
RECURSIVE ProcessAll(_, _)
ProcessAll(accts, txs) ==
    IF txs = <<>> THEN [err |-> "nil", accounts |-> accts]
    ELSE LET r == processTransaction(accts, Head(txs))
         IN  IF r.err # "nil" THEN r ELSE ProcessAll(r.accounts, Tail(txs))

\* A chain that never recognises a hash it has stored.
IsDuplicateNever(hash) == FALSE

\* Chain.AddBlock, the duplicate test: the hash is a key of c.blocks.
IsDuplicate(hash) == hash \in DOMAIN blocks

\* Chain.AddBlock: the whole call.  A transaction that fails stops the loop
\* and the error is returned; the accounts written before it stay written.
AddBlock(b) ==
    LET hash == BlockHash(b)
        run  == ProcessAll(accounts, b.txs)
    IN
    /\ UNCHANGED <<lockVars, loopVars, distributor, storeVars, assetVars, engineVars, theValidator, keeperVars, poolVars>>
    /\ IF BlockVerify(b) # "nil" THEN
            /\ chainRet' = BlockVerify(b)
            /\ UNCHANGED <<accounts, blocks, heights, latestHash, latestHeight>>
       ELSE IF b.header.height > 0 /\ b.header.parentHash \notin DOMAIN blocks THEN
            /\ chainRet' = "ErrInvalidParent"
            /\ UNCHANGED <<accounts, blocks, heights, latestHash, latestHeight>>
       ELSE IF IsDuplicate(hash) THEN
            /\ chainRet' = "ErrDuplicateBlock"
            /\ UNCHANGED <<accounts, blocks, heights, latestHash, latestHeight>>
       ELSE IF run.err # "nil" THEN
            /\ chainRet' = run.err
            /\ accounts' = run.accounts
            /\ UNCHANGED <<blocks, heights, latestHash, latestHeight>>
       ELSE
            /\ chainRet' = "nil"
            /\ accounts' = run.accounts
            /\ blocks' = [h \in DOMAIN blocks \cup {hash} |->
                            IF h = hash THEN b ELSE blocks[h]]
            /\ heights' = [n \in DOMAIN heights \cup {b.header.height} |->
                            IF n = b.header.height THEN hash ELSE heights[n]]
            /\ IF b.header.height > latestHeight
               THEN latestHeight' = b.header.height /\ latestHash' = hash
               ELSE UNCHANGED <<latestHash, latestHeight>>

\* GenesisConfig.ToBlock
GenesisBlock == Block(Header(0, 0, NoHash, ZeroRoot), <<>>)

\* Chain.GetBlockByHeight: the block, or "ErrBlockNotFound".
GetBlockByHeight(h) ==
    IF h \in DOMAIN heights THEN blocks[heights[h]] ELSE "ErrBlockNotFound"

\* State after NewStateDB, NewChain and InitGenesis.
InitChain ==
    /\ accounts = [a \in {"A", "B"} |->
                     [NewAccount EXCEPT !.balances =
                        IF a = "A" THEN [x \in Assets |-> IF x = "GYDS" THEN 3 ELSE 2]
                                   ELSE [x \in Assets |-> IF x = "GYDS" THEN 1 ELSE 0]]]
    /\ blocks = [h \in {BlockHash(GenesisBlock)} |-> GenesisBlock]
    /\ heights = [n \in {0} |-> BlockHash(GenesisBlock)]
    /\ latestHash = BlockHash(GenesisBlock)
    /\ latestHeight = 0
    /\ chainRet = "nil"

\* The transaction t carrying signature bytes that were not made by Sign
\* with the sender's key.
Forged(t) == [t EXCEPT !.sig = "bad"]

\* Transaction lists: every single pool entry, the first one also with a
\* forged signature, and every list of at most MaxTxs of the Combined entries.
RECURSIVE TxListsOfLen(_)
TxListsOfLen(n) ==
    IF n = 0 THEN {<<>>}
    ELSE {Append(l, TxPool[i]) : l \in TxListsOfLen(n - 1), i \in Combined}

TxLists ==
    UNION {TxListsOfLen(n) : n \in 0..MaxTxs}
    \cup {<<TxPool[i]>> : i \in 1..Len(TxPool)}
    \cup {<<Forged(TxPool[1])>>}

\* Blocks a peer may deliver: the next block on the head with any payload;
\* any height on any parent over a short payload; and the next block on the
\* head with a timestamp in the future or with a wrong tx root.
PayloadBlocks ==
    {Block(Header(latestHeight + 1, ClockLimit, latestHash, CalculateTxRoot(txs)), txs) :
        txs \in TxLists}

HeaderBlocks ==
    {Block(Header(h, ClockLimit, p, CalculateTxRoot(txs)), txs) :
        h \in 0..MaxHeight,
        p \in {NoHash, UnknownHash} \cup DOMAIN blocks,
        txs \in {<<>>, <<TxPool[1]>>}}

MalformedBlocks ==
    {Block(Header(latestHeight + 1, ClockLimit + 1, latestHash, ZeroRoot), <<>>),
     Block(Header(latestHeight + 1, ClockLimit, latestHash, ZeroRoot), <<TxPool[1]>>)}

CandidateBlocks == PayloadBlocks \cup HeaderBlocks \cup MalformedBlocks

Growing ==
    /\ Cardinality(DOMAIN blocks) < MaxBlocks
    /\ \A a \in DOMAIN accounts : accounts[a].nonce < MaxNonce

\* A peer delivers a block.
DeliverBlock == Growing /\ \E b \in CandidateBlocks : AddBlock(b)

SigKinds == {"none", "bad", "good"}

\* The block b with every transaction's signature field set to s: the same
\* header and transaction hashes, hence the same block hash.
Resign(b, s) == Block(b.header, [i \in DOMAIN b.txs |-> [b.txs[i] EXCEPT !.sig = s]])

\* A peer delivers a block whose hash the chain already holds: the stored
\* block itself, or a copy of it with other signature bytes.
RedeliverBlock ==
    \E h \in DOMAIN blocks, s \in SigKinds :
        \/ AddBlock(blocks[h])
        \/ AddBlock(Resign(blocks[h], s))

----------------------------------------------------------------------------
(* PoS consensus engine                                                    *)

minStake      == 2      \* Engine.minStake
maxValidators == 2      \* Engine.maxValidators

ValidatorAddrs == {"v1", "v2", "v3"}
Delegators     == {"d1"}
Stakes         == {minStake - 1, minStake, minStake + 1}   \* offered at registration
Amounts        == {1, MaxUint}                             \* offered to delegate / undelegate
MaxRound       == 9                                        \* rounds 0..MaxRound are examined
Rounds         == {0, MaxRound}                            \* rounds the block timer asks for
MaxTargets     == 1      \* validators a delegator is delegating to at one time

\* NewValidator
NewValidator(stake) ==
    [selfStake |-> stake, totalStake |-> stake, delegations |-> <<>>,
     status |-> "active", active |-> TRUE, jailedUntil |-> 0, slashEvents |-> <<>>]

\* Read of a Go map: the zero value for a missing key.
Delegation(v, d) == IF d \in DOMAIN v.delegations THEN v.delegations[d] ELSE 0

\* Validator.AddDelegation
AddDelegation(v, d, amount) ==
    [v EXCEPT !.delegations = [x \in DOMAIN v.delegations \cup {d} |->
                                 IF x = d THEN (Delegation(v, d) + amount) % UintMod
                                 ELSE v.delegations[x]],
              !.totalStake = (v.totalStake + amount) % UintMod]

\* Validator.RemoveDelegation, for Delegation(v, d) >= amount
RemoveDelegation(v, d, amount) ==
    LET left == Delegation(v, d) - amount
    IN  [v EXCEPT !.delegations = [x \in (DOMAIN v.delegations \cup {d})
                                           \ (IF left = 0 THEN {d} ELSE {}) |->
                                     IF x = d THEN left ELSE v.delegations[x]],
                  !.totalStake = (v.totalStake - amount) % UintMod]

Orderings(S) ==
    {p \in [1..Cardinality(S) -> S] : \A i, j \in 1..Cardinality(S) : i # j => p[i] # p[j]}

\* A filter that leaves out a validator staked at exactly minStake.
EligibleStrict(vals) ==
    {a \in DOMAIN vals : vals[a].active /\ vals[a].totalStake > minStake}

\* The filter of updateValidatorList
Eligible(vals) ==
    {a \in DOMAIN vals : vals[a].active /\ vals[a].totalStake >= minStake}

\* Engine.updateValidatorList: the lists it can leave for the validator map
\* vals.  The map is collected in Go's unspecified iteration order and sorted
\* by total stake (descending) with a comparator that does not order equal
\* stakes, then cut to maxValidators: every order of equal stakes can result.
updateValidatorList(vals) ==
    {SubSeq(p, 1, Min(Len(p), maxValidators)) :
        p \in {q \in Orderings(Eligible(vals)) :
                  \A i \in 1..(Len(q) - 1) :
                      vals[q[i]].totalStake >= vals[q[i + 1]].totalStake}}

\* Engine.RegisterValidator
RegisterValidator(address, stake) ==
    /\ UNCHANGED <<lockVars, loopVars, distributor, storeVars, assetVars, chainVars, theValidator, keeperVars, poolVars, currentRound, currentLeader>>
    /\ IF address \in DOMAIN validators THEN
            /\ engineRet' = "ErrAlreadyValidator"
            /\ UNCHANGED <<validators, validatorList, totalStake>>
       ELSE IF stake < minStake THEN
            /\ engineRet' = "ErrInsufficientStake"
            /\ UNCHANGED <<validators, validatorList, totalStake>>
       ELSE IF /\ Cardinality(DOMAIN validators) >= maxValidators
               /\ Len(validatorList) > 0
               /\ stake <= validators[validatorList[Len(validatorList)]].totalStake THEN
            /\ engineRet' = "stake too low to join validator set"
            /\ UNCHANGED <<validators, validatorList, totalStake>>
       ELSE
            LET vals == [a \in DOMAIN validators \cup {address} |->
                            IF a = address THEN NewValidator(stake) ELSE validators[a]]
            IN  /\ validators' = vals
                /\ totalStake' = (totalStake + stake) % UintMod
                /\ validatorList' \in updateValidatorList(vals)
                /\ engineRet' = "nil"

\* Engine.UnregisterValidator
UnregisterValidator(address) ==
    /\ UNCHANGED <<lockVars, loopVars, distributor, storeVars, assetVars, chainVars, theValidator, keeperVars, poolVars, currentRound, currentLeader>>
    /\ IF address \notin DOMAIN validators THEN
            /\ engineRet' = "ErrValidatorNotFound"
            /\ UNCHANGED <<validators, validatorList, totalStake>>
       ELSE
            LET vals == [a \in DOMAIN validators \ {address} |-> validators[a]]
            IN  /\ validators' = vals
                /\ totalStake' = (totalStake - validators[address].totalStake) % UintMod
                /\ validatorList' \in updateValidatorList(vals)
                /\ engineRet' = "nil"

\* Engine.Delegate
Delegate(delegator, validator, amount) ==
    /\ UNCHANGED <<lockVars, loopVars, distributor, storeVars, assetVars, chainVars, theValidator, keeperVars, poolVars, currentRound, currentLeader>>
    /\ IF validator \notin DOMAIN validators THEN
            /\ engineRet' = "ErrValidatorNotFound"
            /\ UNCHANGED <<validators, validatorList, totalStake>>
       ELSE
            LET vals == [validators EXCEPT
                            ![validator] = AddDelegation(@, delegator, amount)]
            IN  /\ validators' = vals
                /\ totalStake' = (totalStake + amount) % UintMod
                /\ validatorList' \in updateValidatorList(vals)
                /\ engineRet' = "nil"

\* Engine.Undelegate
Undelegate(delegator, validator, amount) ==
    /\ UNCHANGED <<lockVars, loopVars, distributor, storeVars, assetVars, chainVars, theValidator, keeperVars, poolVars, currentRound, currentLeader>>
    /\ IF validator \notin DOMAIN validators THEN
            /\ engineRet' = "ErrValidatorNotFound"
            /\ UNCHANGED <<validators, validatorList, totalStake>>
       ELSE IF Delegation(validators[validator], delegator) < amount THEN
            /\ engineRet' = "ErrInsufficientStake"
            /\ UNCHANGED <<validators, validatorList, totalStake>>
       ELSE
            LET vals == [validators EXCEPT
                            ![validator] = RemoveDelegation(@, delegator, amount)]
            IN  /\ validators' = vals
                /\ totalStake' = (totalStake - amount) % UintMod
                /\ validatorList' \in updateValidatorList(vals)
                /\ engineRet' = "nil"

\* The walk of SelectLeader over list with target: the first validator at
\* which the cumulative stake exceeds target, or "" when none does.
RECURSIVE Walk(_, _, _, _)
Walk(list, vals, cumulative, target) ==
    IF list = <<>> THEN ""
    ELSE LET c == (cumulative + vals[Head(list)].totalStake) % UintMod
         IN  IF c > target THEN Head(list)
             ELSE Walk(Tail(list), vals, c, target)

\* What Engine.SelectLeader(round) returns for an engine holding list, vals
\* and total: the leader's address, "ErrNoValidators", or "panic" (integer
\* division by zero when the total stake is 0).
Leader(list, vals, total, round) ==
    IF Len(list) = 0 THEN "ErrNoValidators"
    ELSE IF total = 0 THEN "panic"
    ELSE LET w == Walk(list, vals, 0, round % total)
         IN  IF w # "" THEN w ELSE list[1]

\* Engine.SelectLeader
SelectLeader(round) ==
    LET l == Leader(validatorList, validators, totalStake, round)
    IN
    /\ UNCHANGED <<lockVars, loopVars, distributor, storeVars, assetVars, chainVars, theValidator, keeperVars, poolVars, validators, validatorList, totalStake>>
    /\ IF l = "ErrNoValidators" THEN
            /\ engineRet' = l
            /\ UNCHANGED <<currentRound, currentLeader>>
       ELSE IF l = "panic" THEN
            /\ engineRet' = l
            /\ currentRound' = round
            /\ UNCHANGED currentLeader
       ELSE
            /\ engineRet' = "nil"
            /\ currentRound' = round
            /\ currentLeader' = l

\* State after NewEngine.
InitEngine ==
    /\ validators = <<>>
    /\ validatorList = <<>>
    /\ totalStake = 0
    /\ currentRound = 0
    /\ currentLeader = ""
    /\ engineRet = "nil"

Register   == \E a \in ValidatorAddrs, s \in Stakes : RegisterValidator(a, s)
Unregister == \E a \in ValidatorAddrs : UnregisterValidator(a)

\* The validators other than a that hold a delegation of d.
OtherTargets(d, a) ==
    {x \in DOMAIN validators \ {a} : d \in DOMAIN validators[x].delegations}

DoDelegate ==
    \E d \in Delegators, a \in ValidatorAddrs, n \in Amounts :
        /\ Cardinality(OtherTargets(d, a)) < MaxTargets
        /\ Delegate(d, a, n)
DoUndelegate == \E d \in Delegators, a \in ValidatorAddrs, n \in Amounts : Undelegate(d, a, n)
DoSelectLeader == \E r \in Rounds : SelectLeader(r)

----------------------------------------------------------------------------
(* Validator                                                               *)

MaxSlashes == 2      \* slash events a validator object collects

ValidatorDelegators == {"d1", "d2"}
Percentages         == {5, 50, 100}      \* offered to Validator.Slash

\* The sum of the delegations of v, as an unbounded integer.
DelegationSum(v) == SumOver(v.delegations, DOMAIN v.delegations)

\* Validator.Slash, the amount: percentage of the total stake, rounded down.
\* The product is taken without wrap-around: the stakes of the model stand
\* for stakes below 2^64 / 100.
SlashAmount(v, percentage) == (v.totalStake * percentage) \div 100

\* Validator.Slash: the validator it leaves.  The self-stake pays first; what
\* remains is taken from every delegation as amount * remaining divided by
\* TotalStake - SelfStake, read after SelfStake has been set to 0.
Slash(v, percentage, reason, height) ==
    LET slashAmount == SlashAmount(v, percentage)
        remaining   == slashAmount - v.selfStake
        event       == [height |-> height, reason |-> reason, amount |-> slashAmount]
    IN  [v EXCEPT
           !.selfStake   = IF v.selfStake >= slashAmount
                           THEN v.selfStake - slashAmount ELSE 0,
           !.delegations = IF v.selfStake >= slashAmount THEN v.delegations
                           ELSE [d \in DOMAIN v.delegations |->
                                    (v.delegations[d]
                                       - (v.delegations[d] * remaining) \div (v.totalStake - 0))
                                    % UintMod],
           !.totalStake  = (v.totalStake - slashAmount) % UintMod,
           !.slashEvents = Append(v.slashEvents, event)]

\* Validator.Jail at time t
Jail(v, duration, t) ==
    [v EXCEPT !.status = "jailed", !.active = FALSE, !.jailedUntil = t + duration]

\* Validator.Unjail at time t: the error and the validator it leaves.
ValidatorUnjail(v, t) ==
    IF v.status # "jailed" THEN [err |-> "nil", v |-> v]
    ELSE IF t < v.jailedUntil THEN [err |-> "ErrStillJailed", v |-> v]
    ELSE [err |-> "nil",
          v   |-> [v EXCEPT !.status = "active", !.active = TRUE, !.jailedUntil = 0]]

\* State after NewValidator.
InitValidator == theValidator = NewValidator(minStake)

\* The validator object is created anew.
CreateValidator ==
    /\ \E s \in Stakes : theValidator' = NewValidator(s)
    /\ UNCHANGED <<lockVars, loopVars, distributor, storeVars, assetVars, chainVars, engineVars, keeperVars, poolVars>>

DoAddDelegation ==
    /\ \E d \in ValidatorDelegators, n \in Amounts :
          theValidator' = AddDelegation(theValidator, d, n)
    /\ UNCHANGED <<lockVars, loopVars, distributor, storeVars, assetVars, chainVars, engineVars, keeperVars, poolVars>>

\* Validator.RemoveDelegation: ErrInsufficientStake leaves the validator as
\* it is.
DoRemoveDelegation ==
    /\ \E d \in ValidatorDelegators, n \in Amounts :
          theValidator' = IF Delegation(theValidator, d) < n THEN theValidator
                       ELSE RemoveDelegation(theValidator, d, n)
    /\ UNCHANGED <<lockVars, loopVars, distributor, storeVars, assetVars, chainVars, engineVars, keeperVars, poolVars>>

DoSlash ==
    /\ Len(theValidator.slashEvents) < MaxSlashes
    /\ \E pct \in Percentages : theValidator' = Slash(theValidator, pct, "misbehavior", 0)
    /\ UNCHANGED <<lockVars, loopVars, distributor, storeVars, assetVars, chainVars, engineVars, keeperVars, poolVars>>

----------------------------------------------------------------------------
(* Slashing keeper                                                         *)

\* SlashingParams of the keeper: penalties in basis points (50% and 25%),
\* the signing window, and the jail durations in the unit of now.
DoubleSignPenalty      == 50 * 100
DowntimePenalty        == 25 * 100
MinSignedPerWindow     == 50
SignedBlocksWindow     == 3
DowntimeJailDuration   == 1
DoubleSignJailDuration == 2

MaxTime   == 2       \* now runs from 0 to MaxTime
MaxEvents == 2       \* slashing events the keeper records

KeeperAddrs == {"v1"}            \* validators reported to the keeper
KeeperStake == minStake + 2      \* the stake they register with

\* A signing info as getOrCreateSigningInfo creates it.
NewSigningInfo ==
    [jailedUntil |-> 0, tombstoned |-> FALSE, missedBlocksCounter |-> 0,
     signedBlocksBitmap |-> [i \in 1..SignedBlocksWindow |-> FALSE]]

\* A keeper whose lookup hands out a new signing info on every call.
alwaysCreateSigningInfo(address) ==
    [a \in DOMAIN signingInfo \cup {address} |->
        IF a = address THEN NewSigningInfo ELSE signingInfo[a]]

\* SlashingKeeper.getOrCreateSigningInfo: the signing-info map it leaves.
getOrCreateSigningInfo(address) ==
    [a \in DOMAIN signingInfo \cup {address} |->
        IF a \in DOMAIN signingInfo THEN signingInfo[a] ELSE NewSigningInfo]

SlashingEvent(address, height, reason, amount, timestamp) ==
    [validatorAddress |-> address, height |-> height, reason |-> reason,
     amount |-> amount, timestamp |-> timestamp]

\* SlashingKeeper.HandleDoubleSign.  The validator it slashes and jails is the
\* copy Engine.GetValidator returns; the copy is dropped when the call ends.
HandleDoubleSign(address, height) ==
    /\ UNCHANGED <<lockVars, loopVars, distributor, storeVars, assetVars, chainVars, engineVars, theValidator, poolVars, now, pending, reported>>
    /\ IF address \notin DOMAIN validators THEN
            /\ keeperRet' = "ErrValidatorNotFound"
            /\ UNCHANGED <<signingInfo, slashingEvents>>
       ELSE IF getOrCreateSigningInfo(address)[address].tombstoned THEN
            /\ keeperRet' = "nil"
            /\ signingInfo' = getOrCreateSigningInfo(address)
            /\ UNCHANGED slashingEvents
       ELSE
            LET copy    == validators[address]
                slashed == Slash(copy, DoubleSignPenalty \div 100, "double_sign", height)
                jailed  == Jail(slashed, DoubleSignJailDuration, now)
            IN  /\ signingInfo' = [getOrCreateSigningInfo(address) EXCEPT
                                      ![address].tombstoned = TRUE]
                /\ slashingEvents' =
                       Append(slashingEvents,
                              SlashingEvent(address, height, "double_sign",
                                            SlashAmount(copy, DoubleSignPenalty \div 100), now))
                /\ keeperRet' = "nil"

\* SlashingKeeper.HandleDowntime, all but the bookkeeping of the goroutine
\* that may be running it.
HandleDowntime(address, height) ==
    /\ UNCHANGED <<lockVars, loopVars, distributor, storeVars, assetVars, chainVars, engineVars, theValidator, poolVars, now, reported>>
    /\ IF address \notin DOMAIN validators THEN
            /\ keeperRet' = "ErrValidatorNotFound"
            /\ UNCHANGED <<signingInfo, slashingEvents>>
       ELSE IF getOrCreateSigningInfo(address)[address].jailedUntil > now THEN
            /\ keeperRet' = "nil"
            /\ signingInfo' = getOrCreateSigningInfo(address)
            /\ UNCHANGED slashingEvents
       ELSE
            LET copy    == validators[address]
                slashed == Slash(copy, DowntimePenalty \div 100, "downtime", height)
                jailed  == Jail(slashed, DowntimeJailDuration, now)
            IN  /\ signingInfo' = [getOrCreateSigningInfo(address) EXCEPT
                                      ![address].jailedUntil = now + DowntimeJailDuration]
                /\ slashingEvents' =
                       Append(slashingEvents,
                              SlashingEvent(address, height, "downtime",
                                            SlashAmount(copy, DowntimePenalty \div 100), now))
                /\ keeperRet' = "nil"

\* The number of blocks a validator may miss in a window before SignBlock
\* starts downtime handling.
MissLimit == SignedBlocksWindow - (SignedBlocksWindow * MinSignedPerWindow) \div 100

\* SlashingKeeper.SignBlock: updates the slot height mod window and the miss
\* counter, and starts a HandleDowntime goroutine when the counter is above
\* the limit.
SignBlock(address, height, signed) ==
    LET info     == getOrCreateSigningInfo(address)[address]
        index    == height % SignedBlocksWindow
        bitmap   == IF Len(info.signedBlocksBitmap) <= index
                    THEN [i \in 1..SignedBlocksWindow |->
                             IF i <= Len(info.signedBlocksBitmap)
                             THEN info.signedBlocksBitmap[i] ELSE FALSE]
                    ELSE info.signedBlocksBitmap
        counter1 == IF ~bitmap[index + 1] /\ info.missedBlocksCounter > 0
                    THEN info.missedBlocksCounter - 1
                    ELSE info.missedBlocksCounter
        counter2 == IF ~signed THEN (counter1 + 1) % UintMod ELSE counter1
    IN
    /\ UNCHANGED <<lockVars, loopVars, distributor, storeVars, assetVars, chainVars, engineVars, theValidator, poolVars, now, slashingEvents>>
    /\ signingInfo' = [getOrCreateSigningInfo(address) EXCEPT
                          ![address].signedBlocksBitmap = [bitmap EXCEPT ![index + 1] = signed],
                          ![address].missedBlocksCounter = counter2]
    /\ pending' = IF counter2 > MissLimit THEN pending \cup {<<address, height>>} ELSE pending
    /\ keeperRet' = "nil"

\* What SlashingKeeper.Unjail(address) returns.  Validator.Unjail runs on the
\* copy Engine.GetValidator returns.
UnjailResult(address) ==
    IF address \notin DOMAIN signingInfo THEN "ErrValidatorNotFound"
    ELSE IF signingInfo[address].tombstoned THEN "validator is tombstoned"
    ELSE IF signingInfo[address].jailedUntil > now THEN "ErrStillJailed"
    ELSE IF address \notin DOMAIN validators THEN "ErrValidatorNotFound"
    ELSE ValidatorUnjail(validators[address], now).err

\* SlashingKeeper.Unjail
Unjail(address) ==
    /\ UNCHANGED <<lockVars, loopVars, distributor, storeVars, assetVars, chainVars, engineVars, theValidator, poolVars,
                   signingInfo, slashingEvents, now, pending, reported>>
    /\ keeperRet' = UnjailResult(address)

\* State after NewSlashingKeeper.
InitKeeper ==
    /\ signingInfo = <<>>
    /\ slashingEvents = <<>>
    /\ now = 0
    /\ pending = {}
    /\ reported = [a \in KeeperAddrs |-> 0]
    /\ keeperRet = "nil"

\* Time passes.
Tick ==
    /\ now < MaxTime
    /\ now' = now + 1
    /\ UNCHANGED <<lockVars, loopVars, distributor, storeVars, assetVars, chainVars, engineVars, theValidator, poolVars,
                   signingInfo, slashingEvents, pending, reported, keeperRet>>

RegisterReported == \E a \in KeeperAddrs : RegisterValidator(a, KeeperStake)

\* Block by block, the node reports whether the validator signed, for two
\* signing windows.
ReportBlock ==
    \E a \in KeeperAddrs, signed \in BOOLEAN :
        /\ reported[a] < 2 * SignedBlocksWindow
        /\ SignBlock(a, reported[a], signed)
        /\ reported' = [reported EXCEPT ![a] = @ + 1]

\* A HandleDowntime goroutine started by SignBlock runs.
RunDowntimeHandler ==
    \E p \in pending :
        /\ Len(slashingEvents) < MaxEvents
        /\ HandleDowntime(p[1], p[2])
        /\ pending' = pending \ {p}

ReportDowntime ==
    \E a \in KeeperAddrs :
        /\ Len(slashingEvents) < MaxEvents
        /\ HandleDowntime(a, reported[a])
        /\ UNCHANGED pending

ReportDoubleSign ==
    \E a \in KeeperAddrs :
        /\ Len(slashingEvents) < MaxEvents
        /\ HandleDoubleSign(a, reported[a])

RequestUnjail == \E a \in KeeperAddrs : Unjail(a)

----------------------------------------------------------------------------
(* Mempool                                                                 *)

\* MempoolConfig of the pool, with MaxTxAge in the unit of clock.
MaxSize     == 2
MaxTxSize   == 2
MaxTxAge    == 2
MinGasPrice == 1

MaxClock == 4        \* clock runs from 0 to MaxClock

\* Transaction.Size: the length of the JSON encoding, BaseTxSize bytes for a
\* transaction without data and one more for every byte of data.
BaseTxSize == 2
Size(t) == BaseTxSize + t.data

\* A signed transfer offered to the pool, carrying data bytes of data.
PoolTx(from, fee, nonce, data) ==
    [type |-> "transfer", from |-> from, to |-> "D", amount |-> 1, asset |-> "GYDS",
     fee |-> fee, nonce |-> nonce, sig |-> "good", data |-> data]

\* The transactions offered to the pool: one per sender at gas price 1 and at
\* gas price 2, and from A one with the largest nonce, one that pays too
\* little, one that is too large and one without signature.
MempoolTxs ==
    {PoolTx(f, fee, 0, 0) : f \in {"A", "B", "C"}, fee \in {2, 4}}
      \cup {PoolTx("A", 6, MaxUint, 0), PoolTx("A", 1, 0, 0), PoolTx("A", 6, 0, 1),
            [PoolTx("B", 6, 0, 0) EXCEPT !.sig = "none"]}

\* Transaction.HashHex: the hex form of the SHA-256 of the transaction with
\* the signature cleared, one hash per content.
HashHex(t) == Unsigned(t)

\* The MempoolTx AddTx builds.
MempoolTx(t, addedAt) ==
    [tx |-> t, hash |-> HashHex(t), addedAt |-> addedAt,
     gasPrice |-> t.fee \div Size(t)]

\* TxQueue.Less and TxQueue.Swap on the queue q, positions counted from 1.
Less(q, i, j) == q[i].gasPrice > q[j].gasPrice
Swap(q, i, j) == [q EXCEPT ![i] = q[j], ![j] = q[i]]

\* container/heap up and down.
RECURSIVE up(_, _)
up(q, j) ==
    IF j = 1 THEN q
    ELSE LET i == j \div 2
         IN  IF ~Less(q, j, i) THEN q ELSE up(Swap(q, i, j), i)

RECURSIVE down(_, _, _)
down(q, i, n) ==
    LET j1 == 2 * i
        j  == IF j1 + 1 <= n /\ Less(q, j1 + 1, j1) THEN j1 + 1 ELSE j1
    IN  IF j1 > n THEN q
        ELSE IF ~Less(q, j, i) THEN q
        ELSE down(Swap(q, i, j), j, n)

\* heap.Push and heap.Pop; Pop gives the item and the queue left.
Push(q, x) == up(Append(q, x), Len(q) + 1)
Pop(q) ==
    LET n == Len(q) - 1
        d == down(Swap(q, 1, Len(q)), 1, n)
    IN  [item |-> d[Len(q)], queue |-> SubSeq(d, 1, n)]

RECURSIVE PushAll(_, _)
PushAll(q, items) ==
    IF items = <<>> THEN q ELSE PushAll(Push(q, Head(items)), Tail(items))

\* Mempool.rebuildQueue for the map txs: the pushes happen in the iteration
\* order of the map, which Go leaves open, so every order can result.
rebuildQueue(txs) ==
    {PushAll(<<>>, [i \in 1..Len(p) |-> txs[p[i]]]) : p \in Orderings(DOMAIN txs)}

\* The map txs without the key hash.
Delete(txs, hash) == [h \in DOMAIN txs \ {hash} |-> txs[h]]

\* The transaction expired: time.Since(AddedAt) > MaxTxAge.
Expired(mtx) == clock - mtx.addedAt > MaxTxAge

\* Mempool.evictLowest: whether it evicted, the map it leaves and the queues
\* rebuildQueue can leave.  The entry it takes for the lowest is the last
\* element of the heap's slice.
evictLowest(minGasPrice) ==
    IF Len(queue) = 0 \/ queue[Len(queue)].gasPrice >= minGasPrice
    THEN [evicted |-> FALSE, txs |-> poolTxs, queues |-> {queue}]
    ELSE [evicted |-> TRUE,
          txs     |-> Delete(poolTxs, queue[Len(queue)].hash),
          queues  |-> rebuildQueue(Delete(poolTxs, queue[Len(queue)].hash))]

\* The body of Mempool.AddTx, run under the mempool's lock.
AddTxLocked(tx) ==
    LET gasPrice == tx.fee \div Size(tx)
        hash     == HashHex(tx)
        full     == Cardinality(DOMAIN poolTxs) >= MaxSize
        e        == IF full THEN evictLowest(gasPrice)
                    ELSE [evicted |-> FALSE, txs |-> poolTxs, queues |-> {queue}]
        txs1     == e.txs
        current  == IF tx.from \in DOMAIN nonces THEN nonces[tx.from] ELSE 0
        mtx      == MempoolTx(tx, clock)
    IN
    /\ UNCHANGED <<lockVars, distributor, storeVars, assetVars, chainVars, engineVars, theValidator, keeperVars, reaped>>
    /\ clock' = clock + 1
    /\ IF TxVerify(tx) # "nil" THEN
            /\ poolRet' = TxVerify(tx)
            /\ UNCHANGED <<poolTxs, queue, nonces>>
       ELSE IF Size(tx) > MaxTxSize THEN
            /\ poolRet' = "ErrTxTooLarge"
            /\ UNCHANGED <<poolTxs, queue, nonces>>
       ELSE IF gasPrice < MinGasPrice THEN
            /\ poolRet' = "ErrGasPriceTooLow"
            /\ UNCHANGED <<poolTxs, queue, nonces>>
       ELSE IF hash \in DOMAIN poolTxs THEN
            /\ poolRet' = "ErrDuplicateTx"
            /\ UNCHANGED <<poolTxs, queue, nonces>>
       ELSE IF full /\ ~e.evicted THEN
            /\ poolRet' = "ErrMempoolFull"
            /\ UNCHANGED <<poolTxs, queue, nonces>>
       ELSE IF tx.nonce < current THEN
            /\ poolRet' = "ErrNonceTooLow"
            /\ poolTxs' = txs1
            /\ queue' \in e.queues
            /\ UNCHANGED nonces
       ELSE
            /\ poolRet' = "nil"
            /\ poolTxs' = [h \in DOMAIN txs1 \cup {hash} |->
                              IF h = hash THEN mtx ELSE txs1[h]]
            /\ \E q \in e.queues : queue' = Push(q, mtx)
            /\ nonces' = [a \in DOMAIN nonces \cup {tx.from} |->
                             IF a = tx.from THEN (tx.nonce + 1) % UintMod
                             ELSE nonces[a]]

\* Mempool.AddTx, with the cleanup goroutine left aside.
AddTx(tx) == AddTxLocked(tx) /\ UNCHANGED loopVars

\* Mempool.RemoveTx: the entry leaves the map, not the queue.
RemoveTx(hash) ==
    /\ UNCHANGED <<lockVars, loopVars, distributor, storeVars, assetVars, chainVars, engineVars, theValidator, keeperVars,
                   queue, nonces, clock, reaped>>
    /\ poolTxs' = Delete(poolTxs, hash)
    /\ poolRet' = "nil"

\* The first loop of ReapMaxTxs: pops until out holds maxTxs transactions or
\* the queue is empty; an expired item is deleted from the map and skipped.
RECURSIVE ReapLoop(_, _, _, _)
ReapLoop(q, txs, out, maxTxs) ==
    IF Len(out) < maxTxs /\ Len(q) > 0 THEN
        LET popped == Pop(q)
        IN  IF Expired(popped.item)
            THEN ReapLoop(popped.queue, Delete(txs, popped.item.hash), out, maxTxs)
            ELSE ReapLoop(popped.queue, txs, Append(out, popped.item.tx), maxTxs)
    ELSE [queue |-> q, txs |-> txs, out |-> out]

\* The second loop of ReapMaxTxs: what the map holds for every returned
\* transaction goes back into the queue.
RECURSIVE Readd(_, _, _)
Readd(q, txs, out) ==
    IF out = <<>> THEN q
    ELSE IF HashHex(Head(out)) \in DOMAIN txs
         THEN Readd(Push(q, txs[HashHex(Head(out))]), txs, Tail(out))
         ELSE Readd(q, txs, Tail(out))

\* Mempool.ReapMaxTxs
ReapMaxTxs(maxTxs) ==
    LET r == ReapLoop(queue, poolTxs, <<>>, IF maxTxs <= 0 THEN MaxSize ELSE maxTxs)
    IN
    /\ UNCHANGED <<lockVars, loopVars, distributor, storeVars, assetVars, chainVars, engineVars, theValidator, keeperVars, nonces, clock>>
    /\ poolTxs' = r.txs
    /\ queue' = Readd(r.queue, r.txs, r.out)
    /\ reaped' = r.out
    /\ poolRet' = "reaped"

\* Mempool.Update
Update(confirmedTxs) ==
    LET txs1 == [h \in DOMAIN poolTxs \ {HashHex(t) : t \in confirmedTxs} |-> poolTxs[h]]
    IN
    /\ UNCHANGED <<lockVars, loopVars, distributor, storeVars, assetVars, chainVars, engineVars, theValidator, keeperVars, nonces, clock, reaped>>
    /\ poolTxs' = txs1
    /\ queue' \in rebuildQueue(txs1)
    /\ poolRet' = "updated"

\* The body of Mempool.cleanup, run under the mempool's lock.
cleanupLocked ==
    LET txs1 == [h \in {x \in DOMAIN poolTxs : ~Expired(poolTxs[x])} |-> poolTxs[h]]
    IN
    /\ UNCHANGED <<lockVars, distributor, storeVars, assetVars, chainVars, engineVars, theValidator, keeperVars, nonces, clock, reaped>>
    /\ poolTxs' = txs1
    /\ queue' \in rebuildQueue(txs1)
    /\ poolRet' = "cleaned"

\* Mempool.cleanup as a step of its own, whenever the ticker has fired.
cleanup == cleanupLocked /\ UNCHANGED loopVars

\* State after NewMempool.
InitPool ==
    /\ poolTxs = <<>>
    /\ queue = <<>>
    /\ nonces = <<>>
    /\ clock = 0
    /\ reaped = <<>>
    /\ poolRet = "nil"

\* Time passes between two calls.
AdvanceClock ==
    /\ clock < MaxClock
    /\ clock' = clock + 1
    /\ UNCHANGED <<lockVars, loopVars, distributor, storeVars, assetVars, chainVars, engineVars, theValidator, keeperVars,
                   poolTxs, queue, nonces, reaped, poolRet>>

SubmitTx  == \E tx \in MempoolTxs : clock < MaxClock /\ AddTx(tx)
DropTx    == \E hash \in DOMAIN poolTxs : RemoveTx(hash)
Reap      == \E maxTxs \in {0, 1} : ReapMaxTxs(maxTxs)
ConfirmTx == \E confirmedTxs \in {{}} \cup {{poolTxs[h].tx} : h \in DOMAIN poolTxs} :
                Update(confirmedTxs)

----------------------------------------------------------------------------
(* Assets                                                                  *)

Asset(totalSupply, maxSupply, mintable, burnable, pausable, paused) ==
    [totalSupply |-> totalSupply, maxSupply |-> maxSupply, mintable |-> mintable,
     burnable |-> burnable, pausable |-> pausable, paused |-> paused]

NewFungibleAsset == Asset(0, 0, TRUE, TRUE, FALSE, FALSE)

NewNFT == Asset(1, 1, FALSE, TRUE, FALSE, FALSE)

NewStablecoin == Asset(0, 0, TRUE, TRUE, TRUE, FALSE)

\* Asset.Mint: the error and the asset it leaves.  The sum that is compared
\* with MaxSupply is a uint64.
Mint(a, amount) ==
    IF ~a.mintable THEN [err |-> "ErrNotMintable", asset |-> a]
    ELSE IF a.paused THEN [err |-> "ErrAssetPaused", asset |-> a]
    ELSE IF a.maxSupply > 0 /\ (a.totalSupply + amount) % UintMod > a.maxSupply
    THEN [err |-> "ErrExceedsMaxSupply", asset |-> a]
    ELSE [err |-> "nil",
          asset |-> [a EXCEPT !.totalSupply = (a.totalSupply + amount) % UintMod]]

\* Asset.Burn
Burn(a, amount) ==
    IF ~a.burnable THEN [err |-> "ErrNotBurnable", asset |-> a]
    ELSE IF a.paused THEN [err |-> "ErrAssetPaused", asset |-> a]
    ELSE IF a.totalSupply < amount THEN [err |-> "ErrInsufficientSupply", asset |-> a]
    ELSE [err |-> "nil", asset |-> [a EXCEPT !.totalSupply = a.totalSupply - amount]]

\* Asset.Pause
Pause(a) ==
    IF ~a.pausable THEN [err |-> "ErrNotPausable", asset |-> a]
    ELSE [err |-> "nil", asset |-> [a EXCEPT !.paused = TRUE]]

\* Asset.Unpause
Unpause(a) ==
    IF ~a.pausable THEN [err |-> "ErrNotPausable", asset |-> a]
    ELSE [err |-> "nil", asset |-> [a EXCEPT !.paused = FALSE]]

\* State after NewFungibleAsset.
InitAsset == theAsset = NewFungibleAsset /\ assetRet = "created"

\* What an issuer creates: one of the three kinds of asset, the fungible
\* ones with or without a maximum supply, mintable and burnable or fixed.
IssuedAssets ==
    {NewNFT}
    \cup {[a EXCEPT !.maxSupply = m, !.mintable = f, !.burnable = f] :
            a \in {NewFungibleAsset, NewStablecoin}, m \in {0, MaxUint - 2}, f \in BOOLEAN}

AssetAmounts == {1, 2, MaxUint}

AssetCall(r) ==
    /\ theAsset' = r.asset
    /\ assetRet' = r.err
    /\ UNCHANGED <<lockVars, loopVars, distributor, chainVars, engineVars, theValidator, keeperVars, poolVars, storeVars>>

CreateAsset == \E a \in IssuedAssets : AssetCall([err |-> "created", asset |-> a])
DoMint      == \E amount \in AssetAmounts : AssetCall(Mint(theAsset, amount))
DoBurn      == \E amount \in AssetAmounts : AssetCall(Burn(theAsset, amount))
DoPause     == AssetCall(Pause(theAsset))
DoUnpause   == AssetCall(Unpause(theAsset))

----------------------------------------------------------------------------
(* State store with snapshots                                              *)

MaxStateOps == 3        \* writes to the store's maps in one run

StoreAddrs == {"A", "B"}

\* The root of a store that was never committed: the empty string.
NoRoot == <<>>

StateDB(accts, assets, dirty, root) ==
    [accounts |-> accts, assets |-> assets, dirty |-> dirty, root |-> root]

\* A map without entries.
EmptyMap == [k \in {} |-> k]

NewStateDB == StateDB(EmptyMap, EmptyMap, {}, NoRoot)

\* CalculateMerkleRoot: SHA-256 of the serialized data.
CalculateMerkleRoot(data) == <<"sha256", data>>

\* StateDB.calculateRoot: the hash of the serialized account map.
calculateRoot(db) == CalculateMerkleRoot(db.accounts)

\* StateDB.SetAccount on the store db.
StoreAccount(db, address, account) ==
    [db EXCEPT !.accounts = SetAccount(db.accounts, address, account),
               !.dirty = db.dirty \cup {address}]

\* StateDB.DeleteAccount
DeleteAccount(db, address) ==
    [db EXCEPT !.accounts = [a \in DOMAIN db.accounts \ {address} |-> db.accounts[a]],
               !.dirty = db.dirty \cup {address}]

\* StateDB.Transfer: the error and the store it leaves.  The receiver's
\* account is created before the sender's balance is looked at.
Transfer(db, from, to, asset, amount) ==
    IF from \notin DOMAIN db.accounts THEN [err |-> "ErrAccountNotFound", db |-> db]
    ELSE
    LET withReceiver == IF to \in DOMAIN db.accounts THEN db.accounts
                        ELSE SetAccount(db.accounts, to, NewAccount)
    IN
    IF withReceiver[from].balances[asset] < amount
    THEN [err |-> "ErrInsufficientBalance", db |-> [db EXCEPT !.accounts = withReceiver]]
    ELSE
    LET debited  == [withReceiver EXCEPT
                        ![from].balances[asset] = (@ - amount) % UintMod]
        credited == [debited EXCEPT
                        ![to].balances[asset] = (@ + amount) % UintMod]
    IN  [err |-> "nil",
         db  |-> [db EXCEPT !.accounts = credited, !.dirty = db.dirty \cup {from, to}]]

\* StateDB.SetAsset: no dirty bit.
SetAsset(db, id, asset) ==
    [db EXCEPT !.assets = [i \in DOMAIN db.assets \cup {id} |->
                              IF i = id THEN asset ELSE db.assets[i]]]

\* StateDB.Commit
Commit(db) == [db EXCEPT !.root = calculateRoot(db), !.dirty = {}]

\* StateDB.Snapshot: a new store holding copies of every account and asset.
Snapshot(db) == StateDB(db.accounts, db.assets, {}, db.root)

\* A revert that leaves the root and the dirty set of the store.
RevertMapsOnly(db, snap) ==
    [db EXCEPT !.accounts = snap.accounts, !.assets = snap.assets]

\* StateDB.Revert: the store takes the snapshot's maps and root.
Revert(db, snap) == StateDB(snap.accounts, snap.assets, {}, snap.root)

\* State after NewStateDB; no snapshot taken.
InitStore ==
    /\ stateDB = NewStateDB
    /\ snapshot = <<>>
    /\ aliased = FALSE
    /\ taken = <<>>
    /\ stateOps = 0
    /\ stateRet = "nil"

\* Accounts a caller stores, assets an issuer registers, amounts moved.
StoredAccounts ==
    {[NewAccount EXCEPT !.balances["GYDS"] = b] : b \in {1, MaxUint}}

StoredAssets == {NewFungibleAsset, NewNFT}

TransferAmounts == {1, 2}

\* A call that writes to the maps of the store.  After a Revert the maps are
\* the snapshot's own maps, so the snapshot shows the same writes.
WriteStore(db, ret) ==
    /\ stateOps < MaxStateOps
    /\ stateOps' = stateOps + 1
    /\ stateDB' = db
    /\ stateRet' = ret
    /\ snapshot' = IF aliased
                   THEN <<[snapshot[1] EXCEPT !.accounts = db.accounts,
                                              !.assets = db.assets]>>
                   ELSE snapshot
    /\ UNCHANGED <<aliased, taken>>
    /\ UNCHANGED <<lockVars, loopVars, distributor, chainVars, engineVars, theValidator, keeperVars, poolVars, assetVars>>

CallSetAccount ==
    \E address \in StoreAddrs, account \in StoredAccounts :
        WriteStore(StoreAccount(stateDB, address, account), "nil")

CallDeleteAccount ==
    \E address \in StoreAddrs : WriteStore(DeleteAccount(stateDB, address), "nil")

CallTransfer(from, to, asset, amount) ==
    LET r == Transfer(stateDB, from, to, asset, amount)
    IN  WriteStore(r.db, r.err)

DoTransfer ==
    \E from \in StoreAddrs, to \in StoreAddrs, asset \in Assets, amount \in TransferAmounts :
        CallTransfer(from, to, asset, amount)

CallSetAsset ==
    \E id \in Assets, asset \in StoredAssets : WriteStore(SetAsset(stateDB, id, asset), "nil")

CallCommit ==
    /\ stateDB' = Commit(stateDB)
    /\ stateRet' = calculateRoot(stateDB)
    /\ UNCHANGED <<snapshot, aliased, taken, stateOps>>
    /\ UNCHANGED <<lockVars, loopVars, distributor, chainVars, engineVars, theValidator, keeperVars, poolVars, assetVars>>

CallSnapshot ==
    /\ snapshot' = <<Snapshot(stateDB)>>
    /\ aliased' = FALSE
    /\ taken' = <<[accounts |-> stateDB.accounts, assets |-> stateDB.assets,
                   root |-> stateDB.root, ops |-> stateOps]>>
    /\ stateRet' = "snapshot"
    /\ UNCHANGED <<stateDB, stateOps>>
    /\ UNCHANGED <<lockVars, loopVars, distributor, chainVars, engineVars, theValidator, keeperVars, poolVars, assetVars>>

CallRevert ==
    /\ snapshot # <<>>
    /\ stateDB' = Revert(stateDB, snapshot[1])
    /\ aliased' = TRUE
    /\ stateRet' = "reverted"
    /\ UNCHANGED <<snapshot, taken, stateOps>>
    /\ UNCHANGED <<lockVars, loopVars, distributor, chainVars, engineVars, theValidator, keeperVars, poolVars, assetVars>>

----------------------------------------------------------------------------
(* Locks of the keeper, the engine, a validator, the chain head and the    *)
(* state store                                                             *)

NumThreads == 2         \* goroutines calling into the node at the same time

Threads == 1..NumThreads

\* The mutexes: one per component, and for each goroutine the mutex of the
\* validator copy that Engine.GetValidator hands to it.
Mutexes ==
    ({"keeper", "engine", "validator", "chain", "store"} \X {0})
        \cup ({"copy"} \X Threads)

\* The mutex that goroutine t means by a name.
MutexOf(t, name) == <<name, IF name = "copy" THEN t ELSE 0>>

\* A section that holds mu for writing, or for reading, around inner.
Locked(mu, inner)  == <<<<"Lock", mu>>>> \o inner \o <<<<"Unlock", mu>>>>
RLocked(mu, inner) == <<<<"RLock", mu>>>> \o inner \o <<<<"RUnlock", mu>>>>

\* Engine.GetValidator: the engine's read lock around the lookup and, for a
\* registered validator, around Validator.Copy under the validator's read
\* lock.
GetValidatorOps(found) ==
    RLocked("engine", IF found THEN RLocked("validator", <<>>) ELSE <<>>)

\* A method of the validator copy: Slash, Jail, Unjail.
OnCopy == Locked("copy", <<>>)

\* Chain.processTransaction: GetAccount of sender and receiver, SetAccount
\* of both.
processTransactionOps ==
    RLocked("store", <<>>) \o RLocked("store", <<>>)
        \o Locked("store", <<>>) \o Locked("store", <<>>)

\* The lock operations of a node in which Engine.Delegate reports to the
\* keeper while it holds the engine's lock.
ProgramCallingBack(call, found) ==
    IF call = "Delegate"
    THEN Locked("engine", Locked("keeper", <<>>))
    ELSE Locked("keeper", GetValidatorOps(found))

\* The lock operations of a call, in the order the call performs them;
\* found tells whether the validator the call names is registered (for
\* AddBlock: whether the block carries a transaction).  The keeper's calls
\* hold the keeper's lock until their deferred unlock, the engine's calls
\* the engine's lock, AddBlock the chain's lock.
Program(call, found) ==
    CASE call \in {"HandleDoubleSign", "HandleDowntime"} ->
            Locked("keeper", GetValidatorOps(found)
                               \o (IF found THEN OnCopy \o OnCopy ELSE <<>>))
      [] call = "Unjail" ->
            Locked("keeper", GetValidatorOps(found)
                               \o (IF found THEN OnCopy ELSE <<>>))
      [] call = "SignBlock" -> Locked("keeper", <<>>)
      [] call \in {"RegisterValidator", "SelectLeader"} -> Locked("engine", <<>>)
      [] call \in {"Delegate", "Undelegate", "ProcessRewards"} ->
            Locked("engine", IF found THEN Locked("validator", <<>>) ELSE <<>>)
      [] call = "GetValidator" -> GetValidatorOps(found)
      [] call = "AddBlock" ->
            Locked("chain", IF found THEN processTransactionOps ELSE <<>>)
      [] call = "Height" -> RLocked("chain", <<>>)

NodeCalls ==
    {"HandleDoubleSign", "HandleDowntime", "Unjail", "SignBlock",
     "RegisterValidator", "SelectLeader", "Delegate", "Undelegate",
     "ProcessRewards", "GetValidator", "AddBlock", "Height"}

Idle == [call |-> "idle", found |-> FALSE, pos |-> 0]

\* The operations of the call goroutine t is in.
ProgramOf(t) == Program(running[t].call, running[t].found)

\* The operation goroutine t is about to perform, and its mutex.
NextOp(t)    == ProgramOf(t)[running[t].pos][1]
NextMutex(t) == MutexOf(t, ProgramOf(t)[running[t].pos][2])

\* The mutexes goroutine t holds, for writing or for reading.
Held(t) == {mu \in Mutexes : t \in mutexes[mu].writer \cup mutexes[mu].readers}

\* State before any call.
InitLocks ==
    /\ running = [t \in Threads |-> Idle]
    /\ mutexes = [mu \in Mutexes |->
                     [writer |-> {}, readers |-> {}, announced |-> {}, waiting |-> {}]]

LockFrame ==
    UNCHANGED <<loopVars, distributor, chainVars, engineVars, theValidator, keeperVars, poolVars,
                storeVars, assetVars>>

\* Goroutine t enters a call.
Begin(t) ==
    /\ running[t] = Idle
    /\ \E call \in NodeCalls, found \in BOOLEAN :
          running' = [running EXCEPT ![t] = [call |-> call, found |-> found, pos |-> 1]]
    /\ UNCHANGED mutexes
    /\ LockFrame

\* RWMutex.Lock, first half: the writer takes the mutex's writer slot
\* (rw.w) and announces itself; from then on arriving readers wait.
Announce(t) ==
    /\ running[t] # Idle
    /\ NextOp(t) = "Lock"
    /\ mutexes[NextMutex(t)].announced = {}
    /\ mutexes' = [mutexes EXCEPT ![NextMutex(t)].announced = {t}]
    /\ UNCHANGED running
    /\ LockFrame

\* Goroutine t performs its operation.  Lock, second half: the announced
\* writer owns the mutex once its readers have left.  RLock: granted at once
\* while no writer is announced, otherwise the reader queues up and goes on
\* when a writer's Unlock has admitted it.  Unlock admits every queued
\* reader and frees the writer slot.  After the last operation the call
\* returns.
Step(t) ==
    /\ running[t] # Idle
    /\ LET op == NextOp(t)
           mu == NextMutex(t)
           m  == mutexes[mu]
           advance ==
               running' = [running EXCEPT ![t] =
                              IF running[t].pos = Len(ProgramOf(t)) THEN Idle
                              ELSE [running[t] EXCEPT !.pos = @ + 1]]
       IN  CASE op = "Lock" ->
                   /\ m.announced = {t} /\ m.writer = {} /\ m.readers = {}
                   /\ mutexes' = [mutexes EXCEPT ![mu].writer = {t}]
                   /\ advance
             [] op = "RLock" /\ t \in m.readers ->
                   /\ UNCHANGED mutexes
                   /\ advance
             [] op = "RLock" /\ t \notin m.readers /\ m.announced = {} ->
                   /\ mutexes' = [mutexes EXCEPT ![mu].readers = @ \cup {t}]
                   /\ advance
             [] op = "RLock" /\ t \notin m.readers /\ m.announced # {} ->
                   /\ t \notin m.waiting
                   /\ mutexes' = [mutexes EXCEPT ![mu].waiting = @ \cup {t}]
                   /\ UNCHANGED running
             [] op = "Unlock" ->
                   /\ mutexes' = [mutexes EXCEPT ![mu].writer = {},
                                                 ![mu].announced = {},
                                                 ![mu].readers = m.waiting,
                                                 ![mu].waiting = {}]
                   /\ advance
             [] op = "RUnlock" ->
                   /\ mutexes' = [mutexes EXCEPT ![mu].readers = @ \ {t}]
                   /\ advance
    /\ LockFrame

BeginCall == \E t \in Threads : Begin(t)
AnnounceWriter == \E t \in Threads : Announce(t)
StepCall == \E t \in Threads : Step(t)

----------------------------------------------------------------------------
(* Proof-of-work reward distributor                                        *)

BaseReward    == 4      \* RewardConfig.BaseReward, scaled down
HalvingBlocks == 2      \* RewardConfig.HalvingBlocks, scaled down
MinReward     == 1      \* RewardConfig.MinReward, scaled down
MinerShare    == 2000   \* basis points

RewardHeights == 0..MaxUint
RewardFees    == 0..MaxUint

RECURSIVE Halve(_, _, _)
\* The loop of CalculateBlockReward: halve while halvings remain and the
\* reward is above the minimum.
Halve(reward, i, halvings) ==
    IF i < halvings /\ reward > MinReward
    THEN Halve(reward \div 2, i + 1, halvings)
    ELSE reward

\* CalculateBlockReward without its locking.
BlockRewardAt(height) ==
    LET reward == Halve(BaseReward, 0, height \div HalvingBlocks)
    IN  IF reward < MinReward THEN MinReward ELSE reward

\* BlockReward as DistributeReward fills it in.
BlockReward(height, blockReward, fees) ==
    LET totalReward == (blockReward + fees) % UintMod
        minerReward == ((totalReward * MinerShare) % UintMod) \div 10000
    IN  [height |-> height, blockReward |-> blockReward, fees |-> fees,
         totalReward |-> totalReward, minerReward |-> minerReward,
         validatorReward |-> totalReward - minerReward]

NoReward == [height |-> 0, blockReward |-> 0, fees |-> 0, totalReward |-> 0,
             minerReward |-> 0, validatorReward |-> 0]

\* NewRewardDistributor, with no call in progress.
InitDistributor ==
    distributor = [writer |-> FALSE, readers |-> 0,
                   call |-> "none", pc |-> "idle", height |-> 0, fees |-> 0,
                   ret |-> NoReward, totalDistributed |-> 0, lastHeight |-> 0]

RewardFrame ==
    UNCHANGED <<lockVars, loopVars, chainVars, engineVars, theValidator, keeperVars, poolVars,
                storeVars, assetVars>>

\* DistributeReward up to its call of CalculateBlockReward: the write lock
\* is taken and stays held until the deferred unlock.
EnterDistributeReward ==
    /\ distributor.pc = "idle"
    /\ ~distributor.writer /\ distributor.readers = 0
    /\ \E height \in RewardHeights, fees \in RewardFees :
          distributor' = [distributor EXCEPT !.writer = TRUE, !.call = "DistributeReward",
                                             !.pc = "RLock", !.height = height,
                                             !.fees = fees]
    /\ RewardFrame

\* GetCurrentReward: a call of CalculateBlockReward with no lock held.
EnterGetCurrentReward ==
    /\ distributor.pc = "idle"
    /\ \E height \in RewardHeights :
          distributor' = [distributor EXCEPT !.call = "GetCurrentReward", !.pc = "RLock",
                                             !.height = height, !.fees = 0]
    /\ RewardFrame

\* The RLock at the head of CalculateBlockReward: it waits while the write
\* lock is held, whoever holds it.
CalculateRLock ==
    /\ distributor.pc = "RLock"
    /\ ~distributor.writer
    /\ distributor' = [distributor EXCEPT !.readers = @ + 1, !.pc = "reading"]
    /\ RewardFrame

\* CalculateBlockReward returns, and with it the call that made it: for
\* DistributeReward the totals are updated and the write lock released.
CalculateReturn ==
    /\ distributor.pc = "reading"
    /\ LET blockReward == BlockRewardAt(distributor.height)
           r == BlockReward(distributor.height, blockReward, distributor.fees)
       IN  IF distributor.call = "DistributeReward"
           THEN distributor' =
                   [distributor EXCEPT !.readers = @ - 1, !.writer = FALSE,
                                       !.pc = "idle", !.ret = r,
                                       !.totalDistributed = (@ + r.totalReward) % UintMod,
                                       !.lastHeight = distributor.height]
           ELSE distributor' =
                   [distributor EXCEPT !.readers = @ - 1, !.pc = "idle",
                                       !.ret = [NoReward EXCEPT !.height = distributor.height,
                                                               !.blockReward = blockReward]]
    /\ RewardFrame

----------------------------------------------------------------------------
(* The mempool's cleanup goroutine and Stop                                *)

\* Transactions handed to AddTx while the goroutine runs.
LoopTxs == {PoolTx("A", 2, 0, 0), PoolTx("B", 4, 0, 0), PoolTx("A", 1, 0, 0)}

\* NewMempool: the stop channel is open, the goroutine is in its select,
\* no tick is waiting and no AddTx call is in flight.
InitLoop ==
    /\ stopChan = "open"
    /\ tickReady = FALSE
    /\ loopPc = "select"
    /\ inflight = <<>>

LoopFrame ==
    UNCHANGED <<lockVars, distributor, chainVars, engineVars, theValidator, keeperVars,
                storeVars, assetVars>>

\* Mempool.Stop closes the stop channel; closing it a second time panics
\* and ends the process.
Stop ==
    /\ stopChan = "open"
    /\ stopChan' = "closed"
    /\ UNCHANGED <<tickReady, loopPc, inflight, poolVars>>
    /\ LoopFrame

\* The ticker of cleanupLoop fires; the deferred ticker.Stop ends it when
\* the loop returns.
TickerFires ==
    /\ loopPc = "select"
    /\ ~tickReady
    /\ tickReady' = TRUE
    /\ UNCHANGED <<stopChan, loopPc, inflight, poolVars>>
    /\ LoopFrame

\* cleanupLoop, the case of a tick taken even though the loop has returned.
SelectTickAfterReturn ==
    /\ tickReady
    /\ tickReady' = FALSE
    /\ cleanupLocked
    /\ UNCHANGED <<stopChan, loopPc, inflight>>

\* cleanupLoop, case <-ticker.C: one sweep, then back to the select.
SelectTick ==
    /\ loopPc = "select"
    /\ tickReady
    /\ tickReady' = FALSE
    /\ cleanupLocked
    /\ UNCHANGED <<stopChan, loopPc, inflight>>

\* cleanupLoop, case <-mp.stopChan: the goroutine returns.
SelectStop ==
    /\ loopPc = "select"
    /\ stopChan = "closed"
    /\ loopPc' = "returned"
    /\ UNCHANGED <<stopChan, tickReady, inflight, poolVars>>
    /\ LoopFrame

\* A caller enters AddTx and waits for the mempool's lock.
BeginAdd ==
    /\ inflight = <<>>
    /\ clock < MaxClock
    /\ \E tx \in LoopTxs : inflight' = <<tx>>
    /\ UNCHANGED <<stopChan, tickReady, loopPc, poolVars>>
    /\ LoopFrame

\* The waiting AddTx call gets the lock and runs to its return; nothing in
\* it looks at the stop channel.
RunAdd ==
    /\ inflight # <<>>
    /\ AddTxLocked(inflight[1])
    /\ inflight' = <<>>
    /\ UNCHANGED <<stopChan, tickReady, loopPc>>

----------------------------------------------------------------------------
(* Specifications                                                          *)

\* The node after start-up: genesis applied, an engine without validators.
Init ==
    /\ InitChain /\ InitEngine /\ InitValidator /\ InitKeeper /\ InitPool
    /\ InitStore /\ InitAsset /\ InitLocks /\ InitLoop /\ InitDistributor

\* A state store under account and asset writes, transfers, commits,
\* snapshots and reverts.
NextStore ==
    \/ CallSetAccount \/ CallDeleteAccount \/ DoTransfer \/ CallSetAsset
    \/ CallCommit \/ CallSnapshot \/ CallRevert

SpecStore == Init /\ [][NextStore]_vars

\* One asset under creation, minting, burning, pausing and unpausing.
NextAsset == CreateAsset \/ DoMint \/ DoBurn \/ DoPause \/ DoUnpause

SpecAsset == Init /\ [][NextAsset]_vars

NextValidator == CreateValidator \/ DoAddDelegation \/ DoRemoveDelegation \/ DoSlash

SpecValidator == Init /\ [][NextValidator]_vars

\* The slashing keeper over an engine: block reports with the downtime
\* handlers they start, evidence of downtime and of double-signing, unjail
\* requests, and the passing of time.
NextKeeper ==
    \/ RegisterReported \/ Tick \/ ReportBlock \/ RunDowntimeHandler
    \/ ReportDowntime \/ ReportDoubleSign \/ RequestUnjail

SpecKeeper == Init /\ [][NextKeeper]_vars

\* The mempool under submissions, removals, reaps, confirmations, cleanup
\* runs and the passing of time.
NextMempool ==
    \/ SubmitTx \/ DropTx \/ Reap \/ ConfirmTx \/ cleanup \/ AdvanceClock

SpecMempool == Init /\ [][NextMempool]_vars

\* The mempool when no transaction is ever confirmed or removed by hand:
\* entries leave it by eviction and by expiry only.
NextUnconfirmed == SubmitTx \/ cleanup \/ AdvanceClock

SpecUnconfirmed == Init /\ [][NextUnconfirmed]_vars

NextEngine == Register \/ Unregister \/ DoDelegate \/ DoUndelegate \/ DoSelectLeader

SpecEngine == Init /\ [][NextEngine]_vars

NextChain == DeliverBlock \/ RedeliverBlock

\* Goroutines calling into the keeper, the engine and the chain head.
NextLocks == BeginCall \/ AnnounceWriter \/ StepCall

SpecLocks == Init /\ [][NextLocks]_vars

\* A goroutine that can take its next step takes it, and the writer slot
\* of a mutex, a sync.Mutex, goes to each of its waiters in turn.
FairLocks ==
    \A t \in Threads : SF_vars(Announce(t)) /\ WF_vars(Step(t))

SpecLocksFair == SpecLocks /\ FairLocks

\* The reward distributor under DistributeReward and GetCurrentReward.
NextReward ==
    EnterDistributeReward \/ EnterGetCurrentReward \/ CalculateRLock \/ CalculateReturn

SpecReward == Init /\ [][NextReward]_vars

\* A mempool with its cleanup goroutine, callers of AddTx and Stop.
NextLoop == Stop \/ TickerFires \/ SelectTick \/ SelectStop \/ BeginAdd \/ RunAdd

\* A select with a ready case takes it, one of the ready cases at random, so
\* a case that stays ready is taken; a caller waiting for the mempool's lock
\* gets it.
FairLoop == WF_vars(SelectStop) /\ WF_vars(RunAdd)

SpecLoop == Init /\ [][NextLoop]_vars /\ FairLoop

SpecChain == Init /\ [][NextChain]_vars

----------------------------------------------------------------------------
(* Claims about the chain head                                             *)

chainState == <<accounts, blocks, heights, latestHash, latestHeight>>

\* The hashes a step adds to the block map (one, when AddBlock succeeds).
Added == DOMAIN blocks' \ DOMAIN blocks

\* C1: if add_block returns an error, accounts, block map, height index,
\* latest_hash and latest_height are what they were before the call.
C1_ErrorLeavesStateUnchanged ==
    [][chainRet' # "nil" => UNCHANGED chainState]_vars

RECURSIVE AmountOfType(_, _, _)
AmountOfType(txs, type, asset) ==
    IF txs = <<>> THEN 0
    ELSE (IF Head(txs).type = type /\ Head(txs).asset = asset THEN Head(txs).amount ELSE 0)
         + AmountOfType(Tail(txs), type, asset)

\* C2: a successfully applied block changes the supply of every asset (sum of
\* balance + staked + delegated over all accounts) by exactly the mints minus
\* the burns it records; a block of transfers only leaves it unchanged.
C2_SupplyConserved ==
    [][\A h \in Added, asset \in Assets :
          TotalSupply(accounts', asset) =
              TotalSupply(accounts, asset)
              - AmountOfType(blocks'[h].txs, "burn", asset)
              + AmountOfType(blocks'[h].txs, "mint", asset)]_vars

\* The effect of one transaction as the specification states it: the sender
\* pays amount + fee and its nonce grows by one, then the receiver (created
\* if absent) gains amount.
SpecApplyTx(accts, t) ==
    LET debited  == [accts EXCEPT
                        ![t.from].balances[t.asset] = (@ - t.amount - t.fee) % UintMod,
                        ![t.from].nonce = (@ + 1) % UintMod]
        receiver == IF t.to \in DOMAIN debited THEN debited[t.to] ELSE NewAccount
    IN  SetAccount(debited, t.to,
                   [receiver EXCEPT !.balances[t.asset] = (@ + t.amount) % UintMod])

RECURSIVE SpecApplyAll(_, _)
SpecApplyAll(accts, txs) ==
    IF txs = <<>> THEN accts
    ELSE SpecApplyAll(SpecApplyTx(accts, Head(txs)), Tail(txs))

\* C3: after a successful add_block the accounts are the result of applying
\* the block's transactions one by one in block order, each debiting
\* amount + fee from the sender, crediting amount to the receiver and adding
\* one to the sender's nonce, also when sender and receiver are the same.
C3_SequentialTransfers ==
    [][\A h \in Added : accounts' = SpecApplyAll(accounts, blocks'[h].txs)]_vars

\* C4: every accepted block of height h > 0 has its parent indexed at height
\* h - 1, and the indexed heights are the gap-free range 0..latest_height.
C4_HeightOrder ==
    /\ DOMAIN heights = 0..latestHeight
    /\ \A h \in DOMAIN blocks :
          blocks[h].header.height > 0 =>
              /\ (blocks[h].header.height - 1) \in DOMAIN heights
              /\ heights[blocks[h].header.height - 1] = blocks[h].header.parentHash

C6_HeightIndexStable ==
    [][\A n \in DOMAIN heights :
          /\ n \in DOMAIN heights'
          /\ heights'[n] = heights[n]
          /\ GetBlockByHeight(n)' = GetBlockByHeight(n)]_vars

----------------------------------------------------------------------------
(* Claims about the consensus engine                                       *)

\* C7: two engines holding the same validators select the same leader for
\* the same round, whatever the order of registration and also when stakes
\* are equal.  (Every list updateValidatorList can build from this validator
\* map is the list of some engine holding the same validators.)
C7_SameLeaderOnEveryNode ==
    \A r \in 0..MaxRound, list \in updateValidatorList(validators) :
        Leader(list, validators, totalStake, r)
            = Leader(validatorList, validators, totalStake, r)

RECURSIVE ListStake(_, _)
ListStake(list, vals) ==
    IF list = <<>> THEN 0
    ELSE vals[Head(list)].totalStake + ListStake(Tail(list), vals)

\* The walk of the specification: the first validator of the list at which
\* the cumulative stake exceeds target.
RECURSIVE SpecWalk(_, _, _, _)
SpecWalk(list, vals, cumulative, target) ==
    IF list = <<>> THEN ""
    ELSE IF cumulative + vals[Head(list)].totalStake > target THEN Head(list)
    ELSE SpecWalk(Tail(list), vals, cumulative + vals[Head(list)].totalStake, target)

\* C8: with T the sum of total_stake over the active list, select_leader(r)
\* is the validator at which the cumulative stake of the list first exceeds
\* r mod T, so each active validator is selected total_stake times over T
\* consecutive rounds.
C8_StakeWeightedSelection ==
    Len(validatorList) > 0 =>
        LET T == ListStake(validatorList, validators)
        IN  /\ \A r \in 0..MaxRound :
                  Leader(validatorList, validators, totalStake, r)
                      = SpecWalk(validatorList, validators, 0, r % T)
            /\ \A i \in 1..Len(validatorList) :
                  Cardinality({r \in 0..(T - 1) :
                                  Leader(validatorList, validators, totalStake, r)
                                      = validatorList[i]})
                      = validators[validatorList[i]].totalStake

\* C9: the active list holds validators that are active with total_stake >=
\* min_stake, each once, in descending order of total_stake; it is cut to
\* max_validators, and what is cut off is never staked higher than what is
\* kept.
C9_ActiveList ==
    LET n == Len(validatorList)
        members == {validatorList[i] : i \in 1..n}
        qualified == {a \in DOMAIN validators :
                        /\ validators[a].status = "active"
                        /\ validators[a].active
                        /\ validators[a].totalStake >= minStake}
    IN  /\ members \subseteq qualified
        /\ \A i, j \in 1..n : i # j => validatorList[i] # validatorList[j]
        /\ \A i \in 1..(n - 1) :
              validators[validatorList[i]].totalStake
                  >= validators[validatorList[i + 1]].totalStake
        /\ n = Min(Cardinality(qualified), maxValidators)
        /\ n <= maxValidators
        /\ \A a \in qualified \ members, b \in members :
              validators[a].totalStake <= validators[b].totalStake

\* A full active list with a validator at exactly min_stake in it and a
\* registered validator at min_stake - 1 left out, after a delegation.
C9_Witness ==
    /\ Len(validatorList) = maxValidators
    /\ \E i \in 1..Len(validatorList) : validators[validatorList[i]].totalStake = minStake
    /\ \E a \in DOMAIN validators :
          /\ validators[a].totalStake = minStake - 1
          /\ \A i \in 1..Len(validatorList) : validatorList[i] # a
    /\ engineRet = "nil"

\* What register(addr, stake) returns according to C10.
RegisterContract(address, stake) ==
    IF address \in DOMAIN validators THEN "ErrAlreadyValidator"
    ELSE IF stake < minStake THEN "ErrInsufficientStake"
    ELSE IF /\ Len(validatorList) = maxValidators
            /\ stake <= validators[validatorList[Len(validatorList)]].totalStake
         THEN "stake too low to join validator set"
    ELSE "nil"

\* C10: register fails with AlreadyValidator for a registered address and
\* with InsufficientStake below min_stake; otherwise it succeeds, except that
\* with max_validators active validators the stake must exceed the lowest
\* active total_stake; with fewer active validators there is no such
\* comparison.  A failed register changes nothing.
C10_RegisterContract ==
    [][\A a \in ValidatorAddrs, s \in Stakes :
          RegisterValidator(a, s) =>
              /\ engineRet' = RegisterContract(a, s)
              /\ engineRet' # "nil" =>
                    UNCHANGED <<validators, validatorList, totalStake,
                                currentRound, currentLeader>>]_vars

----------------------------------------------------------------------------
(* Claims about the validator object                                       *)

\* C11: for every validator total_stake = self_stake + the sum of all
\* delegations (in 64-bit arithmetic) after any sequence of add-delegation,
\* remove-delegation and slash operations, also after a slash larger than the
\* self-stake.
C11_TotalStakeIsSum ==
    theValidator.totalStake = (theValidator.selfStake + DelegationSum(theValidator)) % UintMod

\* The step records a slashing event for address.
Penalised(address) ==
    /\ Len(slashingEvents') = Len(slashingEvents) + 1
    /\ slashingEvents'[Len(slashingEvents')].validatorAddress = address

\* The penalty, in percent, that the keeper applies for reason.
PenaltyPercent(reason) ==
    IF reason = "double_sign" THEN DoubleSignPenalty \div 100
    ELSE DowntimePenalty \div 100

\* C12: when the keeper penalises a validator for a double-sign or for
\* downtime, the validator held by the engine has status jailed afterwards
\* and its total stake is the stake before less the penalty fraction of it.
C12_PenaltySeenThroughEngine ==
    [][\A a \in KeeperAddrs :
          Penalised(a) =>
              /\ a \in DOMAIN validators'
              /\ validators'[a].status = "jailed"
              /\ validators'[a].totalStake =
                     validators[a].totalStake
                       - SlashAmount(validators[a],
                                     PenaltyPercent(slashingEvents'[Len(slashingEvents')].reason))
      ]_vars

\* The keeper holds address jailed or tombstoned, and no unjail can have
\* succeeded since: it is tombstoned or its jail period has not ended.
HeldByKeeper(address) ==
    /\ address \in DOMAIN signingInfo
    /\ \/ signingInfo[address].tombstoned
       \/ signingInfo[address].jailedUntil > now

\* C13: a validator the keeper has tombstoned, or jailed for a period that has
\* not ended, is not in the engine's active list and SelectLeader returns it
\* for no round.
C13_PenalisedNotActive ==
    \A a \in KeeperAddrs :
        HeldByKeeper(a) =>
            /\ \A i \in 1..Len(validatorList) : validatorList[i] # a
            /\ \A r \in 0..MaxRound :
                   Leader(validatorList, validators, totalStake, r) # a

\* C14: a signing info that is tombstoned stays tombstoned in every step of
\* the keeper, and as long as it is, Unjail of its validator returns the
\* tombstoned error.
C14_TombstonedForever ==
    /\ [](\A a \in KeeperAddrs :
            (a \in DOMAIN signingInfo /\ signingInfo[a].tombstoned) =>
                UnjailResult(a) = "validator is tombstoned")
    /\ [][\A a \in KeeperAddrs :
            (a \in DOMAIN signingInfo /\ signingInfo[a].tombstoned) =>
                (a \in DOMAIN signingInfo' /\ signingInfo'[a].tombstoned)
        ]_vars

\* A tombstoned validator whose unjail was refused with the tombstoned error
\* after time had passed beyond the double-sign jail period.
C14_Witness ==
    /\ keeperRet = "validator is tombstoned"
    /\ \E a \in KeeperAddrs :
          /\ a \in DOMAIN signingInfo
          /\ signingInfo[a].tombstoned
          /\ \E i \in 1..Len(slashingEvents) :
                /\ slashingEvents[i].validatorAddress = a
                /\ slashingEvents[i].reason = "double_sign"
                /\ slashingEvents[i].timestamp + DoubleSignJailDuration <= now

\* C15: Unjail succeeds only for a validator whose status is jailed, whose
\* jail period has ended and which is not tombstoned, and then the engine
\* holds it with status active; for a registered validator that is not
\* jailed, still in its jail period or tombstoned, Unjail returns an error
\* and changes nothing.
C15_UnjailContract ==
    [][\A a \in KeeperAddrs :
          Unjail(a) =>
              LET mayUnjail ==
                      /\ a \in DOMAIN validators
                      /\ validators[a].status = "jailed"
                      /\ now >= validators[a].jailedUntil
                      /\ ~(a \in DOMAIN signingInfo /\ signingInfo[a].tombstoned)
              IN  /\ keeperRet' = "nil" =>
                         mayUnjail /\ validators'[a].status = "active"
                  /\ (a \in DOMAIN validators /\ ~mayUnjail) =>
                         /\ keeperRet' # "nil"
                         /\ UNCHANGED <<validators, validatorList, totalStake,
                                        signingInfo, slashingEvents>>
      ]_vars

\* C16: in every signing info the missed-blocks counter is the number of
\* false slots of the signed-blocks bitmap.
C16_CounterCountsFalseSlots ==
    \A a \in DOMAIN signingInfo :
        signingInfo[a].missedBlocksCounter =
            Cardinality({i \in 1..Len(signingInfo[a].signedBlocksBitmap) :
                            ~signingInfo[a].signedBlocksBitmap[i]})

\* C17: when the n-th block report of a validator is, like the n - 1 before
\* it, a miss inside the first window, the counter is n afterwards, and the
\* report starts downtime handling exactly if n is above the window less the
\* rounded-up share of blocks that must be signed.
C17_MissesCounted ==
    [][\A a \in KeeperAddrs :
          LET n     == reported'[a]
              limit == SignedBlocksWindow
                         - (SignedBlocksWindow * MinSignedPerWindow + 99) \div 100
          IN  (/\ reported[a] + 1 = n
               /\ n <= SignedBlocksWindow
               /\ \A i \in 1..n : ~signingInfo'[a].signedBlocksBitmap[i])
              => /\ signingInfo'[a].missedBlocksCounter = n
                 /\ (<<a, n - 1>> \in pending') <=> (n > limit)
      ]_vars

\* The keeper's record says address is in a jail period now: an event at
\* time t jailed it for the duration that goes with the event's reason.
CurrentlyJailed(address) ==
    \E i \in 1..Len(slashingEvents) :
        /\ slashingEvents[i].validatorAddress = address
        /\ slashingEvents[i].timestamp
             + (IF slashingEvents[i].reason = "double_sign"
                THEN DoubleSignJailDuration ELSE DowntimeJailDuration) > now

\* C18: no step records a downtime slashing event for a validator that is in
\* a jail period, whether it was jailed for downtime or for a double-sign.
C18_NoDowntimeSlashWhileJailed ==
    [][\A a \in KeeperAddrs :
          CurrentlyJailed(a) =>
              ~(Penalised(a) /\ slashingEvents'[Len(slashingEvents')].reason = "downtime")
      ]_vars

\* The hash is in the pool and its entry has not expired.
InPool(hash) == hash \in DOMAIN poolTxs /\ ~Expired(poolTxs[hash])

\* out lists the transaction with hash a at an earlier place than the one
\* with hash b.
Before(out, a, b) ==
    \E i, j \in 1..Len(out) : i < j /\ HashHex(out[i]) = a /\ HashHex(out[j]) = b

\* C19: of two transactions in the pool, an unbounded reap returns the one
\* with the higher gas price before the other.
C19_ReapByGasPrice ==
    [][ReapMaxTxs(0) =>
          \A a, b \in DOMAIN poolTxs :
              (InPool(a) /\ InPool(b) /\ poolTxs[a].gasPrice > poolTxs[b].gasPrice)
                  => Before(reaped', a, b)
      ]_vars

\* C20: when an unbounded reap returns two transactions of the pool that have
\* the same gas price, the one admitted earlier does not come after the other.
C20_ReapTiesFifo ==
    [][ReapMaxTxs(0) =>
          \A a, b \in DOMAIN poolTxs :
              (/\ InPool(a) /\ InPool(b)
               /\ poolTxs[a].gasPrice = poolTxs[b].gasPrice
               /\ poolTxs[a].addedAt < poolTxs[b].addedAt)
                  => ~Before(reaped', b, a)
      ]_vars

\* tx passes every admission check of AddTx other than the one for a full
\* pool.
Admissible(tx) ==
    /\ TxVerify(tx) = "nil"
    /\ Size(tx) <= MaxTxSize
    /\ tx.fee \div Size(tx) >= MinGasPrice
    /\ HashHex(tx) \notin DOMAIN poolTxs
    /\ tx.nonce >= (IF tx.from \in DOMAIN nonces THEN nonces[tx.from] ELSE 0)

\* The lowest gas price among the entries of the pool.
LowestGasPrice ==
    CHOOSE g \in {poolTxs[h].gasPrice : h \in DOMAIN poolTxs} :
        \A h \in DOMAIN poolTxs : g <= poolTxs[h].gasPrice

\* C21: when the pool holds MaxSize entries, adding an admissible transaction
\* with a gas price above the lowest in the pool succeeds and evicts exactly
\* one entry of that lowest gas price; adding one with a gas price equal to
\* or below the lowest returns ErrMempoolFull and leaves the pool as it was.
C21_EvictionAtCapacity ==
    [][\A tx \in MempoolTxs :
          (/\ AddTx(tx)
           /\ Cardinality(DOMAIN poolTxs) = MaxSize
           /\ Admissible(tx))
          => IF tx.fee \div Size(tx) > LowestGasPrice
             THEN /\ poolRet' = "nil"
                  /\ \E h \in DOMAIN poolTxs :
                        /\ poolTxs[h].gasPrice = LowestGasPrice
                        /\ DOMAIN poolTxs' = (DOMAIN poolTxs \ {h}) \cup {HashHex(tx)}
             ELSE /\ poolRet' = "ErrMempoolFull"
                  /\ poolTxs' = poolTxs
      ]_vars

\* C22: the pool holds at most MaxSize entries, and no two of them have the
\* same hash.
C22_PoolBounded ==
    /\ Cardinality(DOMAIN poolTxs) <= MaxSize
    /\ \A h1, h2 \in DOMAIN poolTxs :
          poolTxs[h1].hash = poolTxs[h2].hash => h1 = h2

\* Mempool.nonces read as AddTx reads it: 0 for a sender without entry.
NonceOf(ns, sender) == IF sender \in DOMAIN ns THEN ns[sender] ELSE 0

\* C23: the nonce the pool tracks for a sender never decreases; an AddTx that
\* succeeds with nonce n sets it to the larger of its value and n + 1, and an
\* AddTx with a nonce below it does not succeed; no two entries of the pool
\* have the same sender and the same nonce.
C23_NonceTracking ==
    [][/\ \A tx \in MempoolTxs :
             /\ NonceOf(nonces', tx.from) >= NonceOf(nonces, tx.from)
             /\ (AddTx(tx) /\ poolRet' = "nil") =>
                   /\ tx.nonce >= NonceOf(nonces, tx.from)
                   /\ NonceOf(nonces', tx.from) = tx.nonce + 1
       /\ \A h1, h2 \in DOMAIN poolTxs' :
             (/\ poolTxs'[h1].tx.from = poolTxs'[h2].tx.from
              /\ poolTxs'[h1].tx.nonce = poolTxs'[h2].tx.nonce) => h1 = h2
      ]_vars

\* C24: an unbounded reap returns every transaction that is in the pool and
\* has not expired, and leaves it in the pool.
C24_ReapReturnsPool ==
    [][ReapMaxTxs(0) =>
          \A h \in DOMAIN poolTxs :
              InPool(h) =>
                  /\ \E i \in 1..Len(reaped') : HashHex(reaped'[i]) = h
                  /\ h \in DOMAIN poolTxs'
      ]_vars

----------------------------------------------------------------------------
(* Claims about the state store                                            *)

\* StateDB.GetBalance
GetBalance(db, address, asset) ==
    IF address \in DOMAIN db.accounts THEN db.accounts[address].balances[asset] ELSE 0

\* C25: a Transfer that returns an error leaves the store as it was (no
\* account created, no balance changed, no dirty bit set); a Transfer that
\* succeeds between two addresses lowers the sender's balance by amount,
\* raises the receiver's by amount and marks both addresses dirty.
C25_TransferAtomic ==
    [][\A from \in StoreAddrs, to \in StoreAddrs, asset \in Assets, amount \in TransferAmounts :
          CallTransfer(from, to, asset, amount) =>
             IF stateRet' # "nil"
             THEN stateDB' = stateDB
             ELSE /\ {from, to} \subseteq stateDB'.dirty
                  /\ from # to =>
                        /\ GetBalance(stateDB', from, asset)
                              = GetBalance(stateDB, from, asset) - amount
                        /\ GetBalance(stateDB', to, asset)
                              = GetBalance(stateDB, to, asset) + amount ]_vars

\* The store holds the accounts, the assets and the root it held when the
\* snapshot was taken, and no dirty address.
AsTaken(db) ==
    /\ db.accounts = taken[1].accounts
    /\ db.assets = taken[1].assets
    /\ db.root = taken[1].root
    /\ db.dirty = {}

\* C26: after s = Snapshot() and any sequence of SetAccount, DeleteAccount,
\* Transfer, SetAsset and Commit calls, Revert(s) leaves the store with the
\* accounts, assets and root of the time of the snapshot and an empty dirty
\* set.
C26_RevertRestores ==
    [][(CallRevert /\ ~aliased) => AsTaken(stateDB')]_vars

\* Reverted to a snapshot after writes that followed it.
C26_Witness ==
    /\ stateRet = "reverted"
    /\ taken # <<>>
    /\ stateOps > taken[1].ops
    /\ AsTaken(stateDB)
    /\ stateDB.accounts # EmptyMap
    /\ stateDB.root # NoRoot

\* C30: the root that Commit returns commits to the accounts and to the
\* assets: the store and a snapshot of it get the same root from Commit only
\* if they hold the same accounts and the same assets.
C30_RootCommitsToState ==
    snapshot # <<>> =>
        (Commit(stateDB).root = Commit(snapshot[1]).root
            => /\ stateDB.accounts = snapshot[1].accounts
               /\ stateDB.assets = snapshot[1].assets)

----------------------------------------------------------------------------
(* Claims about signatures and amounts                                     *)

\* C27: a transaction whose non-empty signature does not verify under the
\* sender's key passes neither Verify nor AddBlock: no block that the chain
\* has accepted holds such a transaction.
C27_ForgedSignatureRejected ==
    \A h \in DOMAIN blocks :
        \A i \in 1..Len(blocks[h].txs) : blocks[h].txs[i].sig # "bad"

\* C28: AddBlock applies no transaction whose amount + fee, as unbounded
\* integers, exceeds the sender's balance of the asset: a block of one such
\* transaction leaves every account as it was.
C28_NoOverdraft ==
    [][\A b \in CandidateBlocks :
          (/\ AddBlock(b)
           /\ Len(b.txs) = 1
           /\ b.txs[1].from \in DOMAIN accounts
           /\ b.txs[1].amount + b.txs[1].fee
                 > accounts[b.txs[1].from].balances[b.txs[1].asset])
          => accounts' = accounts ]_vars

----------------------------------------------------------------------------
(* Claims about assets                                                     *)

\* C29: a Mint on a paused or non-mintable asset, or one that would take
\* total_supply + amount (unbounded integers) above a set max_supply, fails
\* and leaves total_supply as it was, and a Mint that succeeds raises it by
\* exactly amount; a Burn on a paused or non-burnable asset, or of more than
\* total_supply, fails and leaves it as it was; total_supply never exceeds a
\* set max_supply.
C29_SupplyBounds ==
    /\ [](theAsset.maxSupply > 0 => theAsset.totalSupply <= theAsset.maxSupply)
    /\ [][\A amount \in AssetAmounts :
             /\ AssetCall(Mint(theAsset, amount)) =>
                   IF \/ theAsset.paused
                      \/ ~theAsset.mintable
                      \/ /\ theAsset.maxSupply > 0
                         /\ theAsset.totalSupply + amount > theAsset.maxSupply
                   THEN assetRet' # "nil" /\ theAsset'.totalSupply = theAsset.totalSupply
                   ELSE assetRet' = "nil" =>
                           theAsset'.totalSupply = theAsset.totalSupply + amount
             /\ (/\ AssetCall(Burn(theAsset, amount))
                 /\ \/ theAsset.paused
                    \/ ~theAsset.burnable
                    \/ amount > theAsset.totalSupply)
                => assetRet' # "nil" /\ theAsset'.totalSupply = theAsset.totalSupply
       ]_vars

----------------------------------------------------------------------------
(* Further claims about the mempool                                        *)

\* C33: an AddTx that returns an error leaves the entries, the priority
\* queue and the nonce map of the pool as they were.
C33_FailedAddChangesNothing ==
    [][\A tx \in MempoolTxs :
          (AddTx(tx) /\ poolRet' # "nil")
          => /\ poolTxs' = poolTxs
             /\ queue' = queue
             /\ nonces' = nonces ]_vars

\* C34: ReapMaxTxs returns only transactions that the pool holds when it is
\* called: a transaction that has left the hash map is not returned.
C34_ReapOnlyPooled ==
    [][\A maxTxs \in {0, 1} :
          ReapMaxTxs(maxTxs) =>
             \A i \in 1..Len(reaped') : HashHex(reaped'[i]) \in DOMAIN poolTxs ]_vars

\* C37: nonce tracking does not block a sender whose transactions have all
\* left the pool by eviction or expiry: a valid transaction of that sender
\* that is not in the pool is admitted when the pool has room.
C37_SenderNotBlocked ==
    [][\A tx \in MempoolTxs :
          (/\ AddTx(tx)
           /\ TxVerify(tx) = "nil"
           /\ Size(tx) <= MaxTxSize
           /\ tx.fee \div Size(tx) >= MinGasPrice
           /\ Cardinality(DOMAIN poolTxs) < MaxSize
           /\ \A h \in DOMAIN poolTxs : poolTxs[h].tx.from # tx.from)
          => poolRet' = "nil" ]_vars

----------------------------------------------------------------------------
(* Further claims about the chain head and the state store                 *)

\* C35: AddBlock applies a transaction only if its nonce is the sender's
\* account nonce, so no transaction is applied twice: a block that AddBlock
\* accepts holds no transaction at two positions, and its first transaction
\* carries the nonce of the sender's account.
C35_NoReplay ==
    [][\A b \in CandidateBlocks :
          (AddBlock(b) /\ chainRet' = "nil" /\ b.txs # <<>>)
          => /\ \A i, j \in 1..Len(b.txs) : b.txs[i] = b.txs[j] => i = j
             /\ b.txs[1].nonce = accounts[b.txs[1].from].nonce ]_vars

\* C36: a snapshot is not changed by writes to the store, also after a
\* Revert to it: every Revert, the second to the same snapshot included,
\* leaves the store with the accounts, assets and root of the time of the
\* snapshot.
C36_SnapshotIsolated ==
    [][CallRevert => AsTaken(stateDB')]_vars

\* Non-empty transaction lists of up to MaxTxs + 2 transactions.
RootLists == UNION {TxListsOfLen(n) : n \in 1..(MaxTxs + 2)}

\* The block on the head that carries txs under the root txRoot.
BlockOver(txs, txRoot) == Block(Header(latestHeight + 1, ClockLimit, latestHash, txRoot), txs)

\* C38: the tx_root binds the transaction list: two non-empty lists that
\* pass Block.Verify under the same tx_root are the same list, whatever
\* their lengths.
C38_TxRootBindsList ==
    \A l1 \in RootLists, l2 \in RootLists :
        (/\ BlockVerify(BlockOver(l1, CalculateTxRoot(l1))) = "nil"
         /\ BlockVerify(BlockOver(l2, CalculateTxRoot(l1))) = "nil")
        => l1 = l2

----------------------------------------------------------------------------
(* Claims about locking                                                    *)

\* C31: no goroutine holds the keeper's lock and the engine's lock at the
\* same time (the keeper is to release the engine's lock before it takes
\* its own), and none holds the chain's lock together with the state
\* store's.
C31_KeeperAndEngineLocksDisjoint ==
    \A t \in Threads :
        /\ ~({<<"keeper", 0>>, <<"engine", 0>>} \subseteq Held(t))
        /\ ~({<<"chain", 0>>, <<"store", 0>>} \subseteq Held(t))

\* The place of a mutex in the order keeper -> engine -> validator and
\* chain -> state store; a validator copy counts as a validator.
Rank(mu) ==
    CASE mu[1] \in {"keeper", "chain"} -> 1
      [] mu[1] \in {"engine", "store"} -> 2
      [] mu[1] \in {"validator", "copy"} -> 3

\* The two families of locks that the claimed order keeps apart.
Family(mu) == IF mu[1] \in {"chain", "store"} THEN "chain" ELSE "keeper"

\* Goroutine t takes its locks in the order keeper -> engine -> validator
\* and chain -> state store: a lock it acquires comes after every lock it
\* holds, in the same family.
AcquiresInOrder(t) ==
    \A new \in Held(t)' \ Held(t) : \A old \in Held(t) :
        Family(old) = Family(new) /\ Rank(old) < Rank(new)

\* C39: concurrent calls into the keeper, the engine and the chain head
\* acquire their locks only in the order keeper -> engine -> validator and
\* chain -> state store, and every call that has begun eventually returns,
\* so no set of calls deadlocks.
C39_OrderedLocksNoDeadlock ==
    /\ [][\A t \in Threads : AcquiresInOrder(t)]_vars
    /\ \A t \in Threads : (running[t] # Idle) ~> (running[t] = Idle)

\* One goroutine is inside Engine.GetValidator on behalf of the keeper,
\* holding keeper, engine and validator locks, while another has announced
\* a write lock on the engine and waits.
C39_Witness ==
    \E t \in Threads, u \in Threads :
        /\ {<<"keeper", 0>>, <<"engine", 0>>, <<"validator", 0>>} \subseteq Held(t)
        /\ u # t
        /\ u \in mutexes[<<"engine", 0>>].announced

----------------------------------------------------------------------------
(* Claims about the reward distributor                                     *)

\* base_reward >> n
ShiftRight(x, n) == x \div (2 ^ n)

\* C40: a call of DistributeReward never waits for a lock that the call
\* itself holds, so it can always take its next step towards its return,
\* and the distribution it has returned carries the block reward
\* max(min_reward, base_reward >> (height / halving_blocks)).
C40_DistributeRewardReturns ==
    /\ (distributor.call = "DistributeReward" /\ distributor.pc # "idle")
          => ENABLED (CalculateRLock \/ CalculateReturn)
    /\ (distributor.call = "DistributeReward" /\ distributor.pc = "idle")
          => LET shifted == ShiftRight(BaseReward, distributor.ret.height \div HalvingBlocks)
             IN  distributor.ret.blockReward
                    = (IF shifted < MinReward THEN MinReward ELSE shifted)

----------------------------------------------------------------------------
(* Claims about the mempool's cleanup goroutine                            *)

\* C32: once Stop has been called the cleanup goroutine eventually
\* returns; after it has returned no further sweep runs (no tick is served
\* and no step reports a sweep); and an AddTx call that is in flight, at
\* that moment or at any other, runs to its return.
C32_CleanupStopsAddsComplete ==
    /\ (stopChan = "closed") ~> (loopPc = "returned")
    /\ [][loopPc = "returned"
            => /\ tickReady' = tickReady
               /\ poolRet' = "cleaned" => poolRet = "cleaned"]_vars
    /\ (inflight # <<>>) ~> (inflight = <<>>)

\* The goroutine has returned after Stop with a tick left unserved and an
\* AddTx call in flight, in a pool that holds a transaction.
C32_Witness ==
    /\ stopChan = "closed"
    /\ loopPc = "returned"
    /\ tickReady
    /\ inflight # <<>>
    /\ DOMAIN poolTxs # {}

=============================================================================
